---- MODULE Spec2Model ----
(***************************************************************************)
(* A model of the industrial-io crate (the Rust binding over libiio):      *)
(* the reference-counted Context handle, the Device / Channel / Buffer     *)
(* values derived from it, the buffer operations and the strided channel   *)
(* iterator.  The native library is an opaque engine; it is modelled by    *)
(* the state its handles are in and by the behaviour the crate documents   *)
(* at each call site.                                                       *)
(***************************************************************************)
EXTENDS Integers, Naturals, Sequences, FiniteSets, TLC

\* ------------------------------------------------------------------------
\* Bounds of the model
\* ------------------------------------------------------------------------
NThreads == 2
MaxCtx == 2
MaxRefs == 3
MaxChan == 2
MaxBuf == 1
MaxSamples == 2
MaxYield == 4

\* The widths of the 32, 64 and 128 bit integers, in bits (scaled down).
Bits32 == 8
Bits64 == 9
Bits128 == 10

\* The timeouts a context is given, in ms: none, or a tenth of a second.
TimeoutVals == {0, 100}

Threads == 1..NThreads
Ctxs == 1..MaxCtx
Chans == 1..MaxChan
Bufs == 1..MaxBuf

\* ------------------------------------------------------------------------
\* State
\* ------------------------------------------------------------------------
VARIABLES
    ctxState,     \* native iio_context of each handle: "none", "live", "destroyed"
    ctxDestroys,  \* number of iio_context_destroy calls made on each handle
    strong,       \* strong count of the Arc<InnerContext> of each handle
    ctxVals,      \* number of Context values in existence, per handle
    devVals,      \* number of Device values in existence, per handle
    chanVals,     \* the channels a Channel value exists of, per handle
    enabled,      \* native enabled flag of the channels of the device
    needsTrig,    \* the device is a triggered device
    trig,         \* a trigger is assigned to the device
    buf,          \* the Buffer values and their native iio_buffer
    pc,           \* what each thread is in the middle of
    timeout,      \* the native I/O timeout of the context, in ms (0: none)
    cancelReq,    \* an external event asked another thread to cancel the buffer
    last,         \* the operation that returned last, and what it returned
    misuse,       \* a native call was made on a handle that is not live
    width,        \* byte length of a sample of each channel of the device
    it,           \* the IntoIter<T> value handed out by channel_iter
    ndev,         \* number of devices the native context has
    nattrs,       \* number of attributes the native device has
    iter,         \* a DeviceIterator or a Device AttrIterator and what it yielded
    fmt,          \* the iio_data_format of the channel that is read and written
    mem,          \* the raw samples of that channel in the native buffer
    attr,         \* the text of an attribute, as the native side holds it
    res,          \* what the last call of a Channel or conversion function returned
    inners        \* number of InnerContext values outside an Arc, per handle

vars == <<ctxState, ctxDestroys, strong, ctxVals, devVals, chanVals, enabled,
          needsTrig, trig, buf, pc, timeout, cancelReq, last, misuse, width, it,
          ndev, nattrs, iter, fmt, mem, attr, res, inners>>

\* The variables of the index, iterator, sample and attribute functions.
ext == <<ndev, nattrs, iter, fmt, mem, attr, res, inners>>

Idle == [op |-> "idle", obj |-> 0, n |-> 0]
NoBuf == [st |-> "none", owner |-> 0, ctx |-> 0, cap |-> 0, mask |-> {},
          cancelled |-> FALSE, native |-> "none", destroys |-> 0]
NoIter == [st |-> "none", owner |-> 0, b |-> 0, chan |-> 0, sz |-> 0, ptr |-> 0,
           end |-> 0, step |-> 0, n |-> 0, done |-> FALSE, outside |-> FALSE,
           freed |-> FALSE]
NoIndexIter == [kind |-> "none", idx |-> 0, out |-> <<>>, done |-> FALSE]
NoFmt == [is_signed |-> FALSE, length |-> 16, repeat |-> 1, shift |-> 0]
NoRes == [op |-> "none"]
NoOp == [op |-> "none", obj |-> 0, ok |-> TRUE, val |-> 0, again |-> FALSE]

Ret(o, x, k, v) == [op |-> o, obj |-> x, ok |-> k, val |-> v, again |-> FALSE]

\* ------------------------------------------------------------------------
\* Helpers of the crate
\* ------------------------------------------------------------------------

\* (mutant) the NULL check is left out.
is_null_never(p) == FALSE

\* A raw pointer of the C library: 0 is NULL.
is_null(p) == p = 0

\* (mutant) every dropped value destroys the native context, as a Context
\* that owned the raw handle without the Arc would.
IsLastRef_every(old) == TRUE

\* Arc::drop: the value that brings the strong count from 1 to 0 drops the
\* InnerContext.
IsLastRef(old) == old = 1

\* (mutant) the derived value copies the raw handle and takes no reference.
context_borrowed(c) == strong

\* Context::clone / Device::context(): one more strong reference.
context(c) == [strong EXCEPT ![c] = @ + 1]

\* The native calls that take the context handle need it live.
UseCtx(c) == misuse \/ ctxState[c] # "live"

\* ------------------------------------------------------------------------
\* Init: a context has just been opened by Context::new()
\* ------------------------------------------------------------------------
Init ==
    /\ ctxState = [c \in Ctxs |-> IF c = 1 THEN "live" ELSE "none"]
    /\ ctxDestroys = [c \in Ctxs |-> 0]
    /\ inners = [c \in Ctxs |-> 0]
    /\ strong = [c \in Ctxs |-> IF c = 1 THEN 1 ELSE 0]
    /\ ctxVals = [c \in Ctxs |-> IF c = 1 THEN 1 ELSE 0]
    /\ devVals = [c \in Ctxs |-> 0]
    /\ chanVals = [c \in Ctxs |-> {}]
    /\ enabled = [c \in Ctxs |-> {}]
    /\ needsTrig \in {f \in [Ctxs -> BOOLEAN] : \A c \in Ctxs : c # 1 => ~f[c]}
    /\ trig = [c \in Ctxs |-> FALSE]
    /\ buf = [b \in Bufs |-> NoBuf]
    /\ pc = [t \in Threads |-> Idle]
    /\ timeout \in {f \in [Ctxs -> TimeoutVals] : \A c \in Ctxs : c # 1 => f[c] = 0}
    /\ cancelReq = [b \in Bufs |-> FALSE]
    /\ last = NoOp
    /\ misuse = FALSE
    /\ width = [ch \in Chans |-> 2]
    /\ it = NoIter
    /\ ndev = [c \in Ctxs |-> IF c = 1 THEN 1 ELSE 0]
    /\ nattrs = 0
    /\ iter = NoIndexIter
    /\ fmt = NoFmt
    /\ mem = <<>>
    /\ attr = <<>>
    /\ res = NoRes

\* ------------------------------------------------------------------------
\* Context
\* ------------------------------------------------------------------------

\* Context::clone (derive(Clone) on the Arc).
clone(t, c) ==
    /\ pc[t] = Idle
    /\ ctxVals[c] > 0
    /\ strong[c] < MaxRefs
    /\ strong' = context(c)
    /\ ctxVals' = [ctxVals EXCEPT ![c] = @ + 1]
    /\ UNCHANGED last
    /\ UNCHANGED <<ctxState, ctxDestroys, devVals, chanVals, enabled, needsTrig,
                   trig, buf, pc, timeout, cancelReq, misuse, width, it, ext>>

\* The Arc<InnerContext> held by a dropped value is released: fetch_sub on
\* the strong count; the thread that saw 1 goes on to drop the InnerContext.
release(t, c) ==
    /\ strong' = [strong EXCEPT ![c] = @ - 1]
    /\ pc' = [pc EXCEPT ![t] = IF IsLastRef(strong[c])
                               THEN [op |-> "drop_inner", obj |-> c, n |-> 0]
                               ELSE Idle]

\* A Context value goes out of scope (or Context::destroy consumes it).
drop_context(t, c) ==
    /\ pc[t] = Idle
    /\ ctxVals[c] > 0
    /\ ctxVals' = [ctxVals EXCEPT ![c] = @ - 1]
    /\ release(t, c)
    /\ UNCHANGED last
    /\ UNCHANGED <<ctxState, ctxDestroys, devVals, chanVals, enabled, needsTrig,
                   trig, buf, timeout, cancelReq, misuse, width, it, ext>>

\* Drop for InnerContext: iio_context_destroy.
drop_inner(t) ==
    /\ pc[t].op = "drop_inner"
    /\ LET c == pc[t].obj IN
        /\ misuse' = UseCtx(c)
        /\ ctxState' = [ctxState EXCEPT ![c] = "destroyed"]
        /\ ctxDestroys' = [ctxDestroys EXCEPT ![c] = @ + 1]
    /\ UNCHANGED last
    /\ pc' = [pc EXCEPT ![t] = Idle]
    /\ UNCHANGED <<strong, ctxVals, devVals, chanVals, enabled, needsTrig, trig, buf,
                   timeout, cancelReq, width, it, ext>>

\* The width of usize and of c_uint, in bits (scaled down from 64 and 32).
UsizeBits == 4
CUintBits == 2

\* idx as c_uint: the low bits of the index.
as_c_uint(idx) == idx % (2 ^ CUintBits)

\* iio_context_get_device: the devices of the context are at the indices
\* 0 .. ndev-1; any other index gets NULL.  The handle of the device at
\* index i is i + 1.
iio_context_get_device(c, i) == IF i < ndev[c] THEN i + 1 ELSE 0

\* Context::get_device, as the user and as DeviceIterator::next call it.
Context_get_device(t, c, idx) ==
    /\ pc[t] = Idle
    /\ ctxVals[c] > 0
    /\ strong[c] < MaxRefs
    /\ misuse' = UseCtx(c)
    /\ LET dev == iio_context_get_device(c, as_c_uint(idx)) IN
        IF is_null(dev)
        THEN /\ last' = Ret("get_device", c, FALSE, 0)
             /\ UNCHANGED <<strong, devVals>>
        ELSE /\ strong' = context(c)
             /\ devVals' = [devVals EXCEPT ![c] = @ + 1]
             /\ last' = Ret("get_device", c, TRUE, dev - 1)
    /\ UNCHANGED <<ctxState, ctxDestroys, ctxVals, chanVals, enabled, needsTrig,
                   trig, buf, pc, timeout, cancelReq, width, it>>

\* A call of Context::get_device by the user.
get_device(t, c, idx) ==
    /\ Context_get_device(t, c, idx)
    /\ UNCHANGED ext

\* ------------------------------------------------------------------------
\* Device and Channel
\* ------------------------------------------------------------------------

\* A Device value goes out of scope: its Context field is dropped.
drop_device(t, c) ==
    /\ pc[t] = Idle
    /\ devVals[c] > 0
    /\ iter.kind = "attributes" => devVals[c] > 1
    /\ devVals' = [devVals EXCEPT ![c] = @ - 1]
    /\ release(t, c)
    /\ UNCHANGED last
    /\ UNCHANGED <<ctxState, ctxDestroys, ctxVals, chanVals, enabled, needsTrig,
                   trig, buf, timeout, cancelReq, misuse, width, it, ext>>

\* Device::get_channel: the channels of the device are at the indices
\* 0 .. MaxChan-1; any other index gets NULL from the library.  The index
\* is passed as c_uint.
get_channel(t, c, idx) ==
    /\ pc[t] = Idle
    /\ devVals[c] > 0
    /\ strong[c] < MaxRefs
    /\ misuse' = UseCtx(c)
    /\ LET chan == IF as_c_uint(idx) + 1 \in Chans THEN as_c_uint(idx) + 1 ELSE 0 IN
        IF is_null(chan)
        THEN /\ last' = Ret("get_channel", c, FALSE, 0)
             /\ UNCHANGED <<strong, chanVals>>
        ELSE /\ chan \notin chanVals[c]
             /\ strong' = context(c)
             /\ chanVals' = [chanVals EXCEPT ![c] = @ \cup {chan}]
             /\ last' = Ret("get_channel", c, TRUE, chan)
    /\ UNCHANGED <<ctxState, ctxDestroys, ctxVals, devVals, enabled, needsTrig,
                   trig, buf, pc, timeout, cancelReq, width, it, ext>>

\* A Channel value goes out of scope: its Context field is dropped.
drop_channel(t, c, ch) ==
    /\ pc[t] = Idle
    /\ ch \in chanVals[c]
    /\ chanVals' = [chanVals EXCEPT ![c] = @ \ {ch}]
    /\ release(t, c)
    /\ UNCHANGED last
    /\ UNCHANGED <<ctxState, ctxDestroys, ctxVals, devVals, enabled, needsTrig,
                   trig, buf, timeout, cancelReq, misuse, width, it, ext>>

\* Channel::enable (iio_channel_enable).
enable(t, c, ch) ==
    /\ pc[t] = Idle
    /\ ch \in chanVals[c]
    /\ misuse' = UseCtx(c)
    /\ enabled' = [enabled EXCEPT ![c] = @ \cup {ch}]
    /\ UNCHANGED last
    /\ UNCHANGED <<ctxState, ctxDestroys, strong, ctxVals, devVals, chanVals,
                   needsTrig, trig, buf, pc, timeout, cancelReq, width, it, ext>>

\* Channel::disable (iio_channel_disable).
disable(t, c, ch) ==
    /\ pc[t] = Idle
    /\ ch \in chanVals[c]
    /\ misuse' = UseCtx(c)
    /\ enabled' = [enabled EXCEPT ![c] = @ \ {ch}]
    /\ UNCHANGED last
    /\ UNCHANGED <<ctxState, ctxDestroys, strong, ctxVals, devVals, chanVals,
                   needsTrig, trig, buf, pc, timeout, cancelReq, width, it, ext>>

\* (mutant) only -1 is taken for an error.
sys_result_minus1(ret) == ret # -1

\* pub(crate) fn sys_result: a negative native return value is an error.
sys_result(ret) == ret >= 0

\* Device::set_trigger / Device::remove_trigger (iio_device_set_trigger with
\* a trigger device, or with NULL).
set_trigger(t, c, on) ==
    /\ pc[t] = Idle
    /\ devVals[c] > 0
    /\ misuse' = UseCtx(c)
    /\ trig' = [trig EXCEPT ![c] = on]
    /\ UNCHANGED last
    /\ UNCHANGED <<ctxState, ctxDestroys, strong, ctxVals, devVals, chanVals,
                   enabled, needsTrig, buf, pc, timeout, cancelReq, width, it, ext>>

\* `ms as c_uint` of a u64 number of milliseconds: its low bits (c_uint
\* has the width of the 32-bit integers).
ms_as_c_uint(ms) == ms % (2 ^ Bits32)

\* Context::set_timeout_ms (iio_context_set_timeout with ms as c_uint).
set_timeout_ms(t, c, ms) ==
    /\ pc[t] = Idle
    /\ ctxVals[c] > 0
    /\ misuse' = UseCtx(c)
    /\ timeout' = [timeout EXCEPT ![c] = ms_as_c_uint(ms)]
    /\ UNCHANGED last
    /\ UNCHANGED <<ctxState, ctxDestroys, strong, ctxVals, devVals, chanVals,
                   enabled, needsTrig, trig, buf, pc, cancelReq, width, it, ext>>

\* ------------------------------------------------------------------------
\* The native sample layout
\* ------------------------------------------------------------------------

\* DataFormat::byte_length of each channel of the device.
byte_length(ch) == width[ch]

\* The row of one sample set: the enabled channels in index order, each
\* aligned to its own byte length.  Place(m, k) is the offset after the
\* enabled channels among 1..k.
RECURSIVE Place(_, _)
Place(m, k) ==
    IF k = 0 THEN 0
    ELSE LET before == Place(m, k - 1)
             len == byte_length(k)
             at == IF before % len = 0 THEN before ELSE before + len - (before % len)
         IN IF k \in m THEN at + len ELSE before

\* iio_buffer_step: the byte distance between two sample sets.
iio_buffer_step(m) == Place(m, MaxChan)

\* ------------------------------------------------------------------------
\* Buffer
\* ------------------------------------------------------------------------

\* iio_device_create_buffer: NULL if no channel is enabled or, for a
\* triggered device, if no trigger is assigned; else the new buffer b.
iio_device_create_buffer(c, b) ==
    IF enabled[c] = {} \/ (needsTrig[c] /\ ~trig[c]) THEN 0 ELSE b

\* (mutant) the buffer captures every channel of the device.
iio_device_mask_all(c) == Chans

\* The channel mask of the device, which iio_device_create_buffer copies
\* into the new buffer: the channels that are enabled now.
iio_device_mask(c) == enabled[c]

\* Device::create_buffer.
create_buffer(t, c, sample_count) ==
    /\ pc[t] = Idle
    /\ devVals[c] > 0
    /\ strong[c] < MaxRefs
    /\ misuse' = UseCtx(c)
    /\ \E b \in Bufs :
        /\ buf[b].st = "none"
        /\ \A o \in Bufs : o < b => buf[o].st # "none"
        /\ LET p == iio_device_create_buffer(c, b) IN
            IF is_null(p)
            THEN /\ last' = Ret("create_buffer", c, FALSE, 0)
                 /\ UNCHANGED <<strong, buf>>
            ELSE /\ strong' = context(c)
                 /\ buf' = [buf EXCEPT ![p] =
                        [st |-> "live", owner |-> t, ctx |-> c, cap |-> sample_count,
                         mask |-> iio_device_mask(c), cancelled |-> FALSE, native |-> "live",
                         destroys |-> 0]]
                 /\ last' = Ret("create_buffer", c, TRUE, p)
    /\ UNCHANGED <<ctxState, ctxDestroys, ctxVals, devVals, chanVals, enabled,
                   needsTrig, trig, pc, timeout, cancelReq, width, it, ext>>

\* The thread t may call a method of the Buffer b: the value exists and it
\* is on the thread that created it (Buffer holds a raw pointer and is
\* neither Send nor Sync), and the thread is not inside another call.
MayCall(t, b) ==
    /\ pc[t] = Idle
    /\ buf[b].st = "live"
    /\ buf[b].owner = t

\* A native call on the buffer handle needs it live.
UseBuf(b) == misuse \/ buf[b].native # "live" \/ ctxState[buf[b].ctx] # "live"

\* Buffer::refill, Buffer::push, Buffer::push_partial: the thread enters the
\* native call and stays in it until the call returns.
transfer(t, b, op, n) ==
    /\ MayCall(t, b)
    /\ misuse' = UseBuf(b)
    /\ pc' = [pc EXCEPT ![t] = [op |-> op, obj |-> b, n |-> n]]
    /\ UNCHANGED <<ctxState, ctxDestroys, strong, ctxVals, devVals, chanVals,
                   enabled, needsTrig, trig, buf, timeout, cancelReq, last, width, it, ext>>

refill(t, b) == transfer(t, b, "refill", buf[b].cap)
push(t, b) == transfer(t, b, "push", buf[b].cap)
push_partial(t, b, num_samples) == transfer(t, b, "push_partial", num_samples)

InTransfer(t) == pc[t].op \in {"refill", "push", "push_partial"}

\* The values of i32, and `ret as i32` of a native ssize_t: the low bits of
\* ret, as a signed number.
I32Min == -(2 ^ (Bits32 - 1))

as_i32(ret) ==
    LET m == ret % (2 ^ Bits32) IN
    IF m >= 2 ^ (Bits32 - 1) THEN m - 2 ^ Bits32 ELSE m

\* The native call returns ret to the wrapper, which hands `ret as i32` to
\* sys_result: Ok(ret as usize), or the error of errno -(ret as i32).  The
\* negation of the least i32 wraps, or panics where overflow is checked.
transfer_return(t, ret) ==
    LET b == pc[t].obj
        r == as_i32(ret)
    IN
    /\ \E panics \in (IF r = I32Min THEN BOOLEAN ELSE {FALSE}) :
        /\ last' = IF panics THEN last
                   ELSE Ret(pc[t].op, b, sys_result(r),
                            IF sys_result(r) THEN ret
                            ELSE IF r = I32Min THEN r ELSE -r)
        /\ pc' = [pc EXCEPT ![t] = IF panics
                                   THEN [op |-> "panic", obj |-> b, n |-> 0]
                                   ELSE Idle]
    /\ UNCHANGED <<ctxState, ctxDestroys, strong, ctxVals, devVals, chanVals,
                   enabled, needsTrig, trig, buf, timeout, cancelReq, misuse, width, it, ext>>

\* The hardware has moved the samples: the byte count is returned.
transfer_done(t) ==
    /\ InTransfer(t)
    /\ ~buf[pc[t].obj].cancelled
    /\ transfer_return(t, pc[t].n * iio_buffer_step(buf[pc[t].obj].mask))

\* The timeout of the context elapsed (a timeout of 0 never does).
transfer_timeout(t) ==
    /\ InTransfer(t)
    /\ ~buf[pc[t].obj].cancelled
    /\ timeout[buf[pc[t].obj].ctx] # 0
    /\ transfer_return(t, -110)

\* The buffer is cancelled: the call returns at once with an error.
transfer_cancelled(t) ==
    /\ InTransfer(t)
    /\ buf[pc[t].obj].cancelled
    /\ transfer_return(t, -9)

\* (mutant) a second call re-arms the buffer.
iio_buffer_cancel_toggle(b) == [buf EXCEPT ![b].cancelled = ~@]

\* iio_buffer_cancel: the first call cancels, the others change nothing.
iio_buffer_cancel(b) == [buf EXCEPT ![b].cancelled = TRUE]

\* Buffer::cancel.
cancel(t, b) ==
    /\ MayCall(t, b)
    /\ misuse' = UseBuf(b)
    /\ buf' = iio_buffer_cancel(b)
    /\ cancelReq' = [cancelReq EXCEPT ![b] = FALSE]
    /\ last' = [Ret("cancel", b, TRUE, 0) EXCEPT !.again = buf[b].cancelled]
    /\ UNCHANGED <<ctxState, ctxDestroys, strong, ctxVals, devVals, chanVals,
                   enabled, needsTrig, trig, pc, timeout, width, it, ext>>

\* Buffer::attr_read_str and the other attribute accessors: calls on the
\* device handle of the buffer.
attr_read(t, b) ==
    /\ MayCall(t, b)
    /\ misuse' = UseCtx(buf[b].ctx)
    /\ UNCHANGED last
    /\ UNCHANGED <<ctxState, ctxDestroys, strong, ctxVals, devVals, chanVals,
                   enabled, needsTrig, trig, buf, pc, timeout, cancelReq, width, it, ext>>

\* iio_buffer_destroy.
iio_buffer_destroy(b) ==
    [buf EXCEPT ![b].native = "destroyed", ![b].destroys = @ + 1]

\* Drop for Buffer: the native buffer is destroyed, then the fields of the
\* value are dropped.
drop_buffer(t, b) ==
    /\ MayCall(t, b)
    /\ misuse' = UseBuf(b)
    /\ buf' = [iio_buffer_destroy(b) EXCEPT ![b].st = "dropped", ![b].owner = 0,
                    ![b].cap = 0, ![b].mask = {}, ![b].cancelled = FALSE]
    /\ pc' = [pc EXCEPT ![t] = [op |-> "drop_fields", obj |-> b, n |-> 0]]
    /\ UNCHANGED last
    /\ UNCHANGED <<ctxState, ctxDestroys, strong, ctxVals, devVals, chanVals,
                   enabled, needsTrig, trig, timeout, cancelReq, width, it, ext>>

\* The Device field of the dropped Buffer releases its Context.
drop_fields(t) ==
    /\ pc[t].op = "drop_fields"
    /\ release(t, buf[pc[t].obj].ctx)
    /\ UNCHANGED <<ctxState, ctxDestroys, ctxVals, devVals, chanVals, enabled,
                   needsTrig, trig, buf, timeout, cancelReq, last, misuse, width, it, ext>>

\* An external event (user input) after which the buffer is to be cancelled
\* by a thread other than the one inside the transfer.
request_cancel(b) ==
    /\ buf[b].st = "live"
    /\ ~cancelReq[b]
    /\ cancelReq' = [cancelReq EXCEPT ![b] = TRUE]
    /\ UNCHANGED <<ctxState, ctxDestroys, strong, ctxVals, devVals, chanVals,
                   enabled, needsTrig, trig, buf, pc, timeout, last, misuse, width, it, ext>>

\* ------------------------------------------------------------------------
\* The channel iterator
\* ------------------------------------------------------------------------

\* mem::size_of::<T>() of the sample types T of channel_iter.
Sizes == {1, 2, 4, 8}

\* iio_buffer_first: the offset, from the start of the buffer, of the first
\* sample of the channel; the end of the buffer if the channel is not one of
\* the buffer.
iio_buffer_first(b, ch) ==
    IF ch \notin buf[b].mask THEN buf[b].cap * iio_buffer_step(buf[b].mask)
    ELSE Place(buf[b].mask, ch) - byte_length(ch)

\* iio_buffer_end: the offset one past the last sample of the buffer, which
\* holds cap sample sets.
iio_buffer_end(b) == buf[b].cap * iio_buffer_step(buf[b].mask)

\* The step of the iterator in elements of T: the native byte step divided
\* by the size of T.
elem_step(step, sz) == step \div sz

\* Buffer::channel_iter::<T>, with sz the size of T.  The iterator borrows
\* nothing: it is a value of its own.
channel_iter(t, b, ch, sz) ==
    /\ MayCall(t, b)
    /\ ch \in chanVals[buf[b].ctx]
    /\ misuse' = UseBuf(b)
    /\ it' = [st |-> "live", owner |-> t, b |-> b, chan |-> ch, sz |-> sz,
              ptr |-> iio_buffer_first(b, ch),
              end |-> iio_buffer_end(b),
              step |-> elem_step(iio_buffer_step(buf[b].mask), sz),
              n |-> 0, done |-> FALSE, outside |-> FALSE, freed |-> FALSE]
    /\ UNCHANGED <<ctxState, ctxDestroys, strong, ctxVals, devVals, chanVals,
                   enabled, needsTrig, trig, buf, pc, timeout, cancelReq, last, width, ext>>

\* IntoIter::next: None at or past the end; else the value at the pointer,
\* which moves on by step elements.  The sz bytes at the pointer are read,
\* whether or not the Buffer the iterator came from is still there: the
\* iterator is on the thread that made it (it holds raw pointers).
next(t) ==
    /\ pc[t] = Idle
    /\ it.st = "live"
    /\ it.owner = t
    /\ it.n < MaxYield
    /\ IF it.ptr >= it.end
       THEN it' = [it EXCEPT !.done = TRUE]
       ELSE it' = [it EXCEPT !.ptr = @ + it.step * it.sz,
                             !.n = @ + 1,
                             !.outside = @ \/ it.ptr + it.sz > it.end,
                             !.freed = @ \/ buf[it.b].native # "live"]
    /\ UNCHANGED <<ctxState, ctxDestroys, strong, ctxVals, devVals, chanVals,
                   enabled, needsTrig, trig, buf, pc, timeout, cancelReq, last,
                   misuse, width, ext>>

\* ------------------------------------------------------------------------
\* The specification
\* ------------------------------------------------------------------------
Indices == 0..MaxChan

Next ==
    \/ \E t \in Threads, c \in Ctxs : clone(t, c)
    \/ \E t \in Threads, c \in Ctxs : drop_context(t, c)
    \/ \E t \in Threads : drop_inner(t)
    \/ \E t \in Threads, c \in Ctxs, idx \in Indices : get_device(t, c, idx)
    \/ \E t \in Threads, c \in Ctxs : drop_device(t, c)
    \/ \E t \in Threads, c \in Ctxs, idx \in Indices : get_channel(t, c, idx)
    \/ \E t \in Threads, c \in Ctxs, ch \in Chans : drop_channel(t, c, ch)
    \/ \E t \in Threads, c \in Ctxs, ch \in Chans : enable(t, c, ch)
    \/ \E t \in Threads, c \in Ctxs, ch \in Chans : disable(t, c, ch)
    \/ \E t \in Threads, c \in Ctxs, on \in BOOLEAN : set_trigger(t, c, on)
    \/ \E t \in Threads, c \in Ctxs, n \in 1..MaxSamples : create_buffer(t, c, n)
    \/ \E t \in Threads, b \in Bufs : refill(t, b)
    \/ \E t \in Threads, b \in Bufs : push(t, b)
    \/ \E t \in Threads, b \in Bufs, n \in 1..MaxSamples : push_partial(t, b, n)
    \/ \E t \in Threads : transfer_done(t)
    \/ \E t \in Threads : transfer_timeout(t)
    \/ \E t \in Threads : transfer_cancelled(t)
    \/ \E t \in Threads, b \in Bufs : cancel(t, b)
    \/ \E t \in Threads, b \in Bufs : attr_read(t, b)
    \/ \E t \in Threads, b \in Bufs : drop_buffer(t, b)
    \/ \E t \in Threads : drop_fields(t)

Spec == Init /\ [][Next]_vars

\* ------------------------------------------------------------------------
\* Properties of Spec
\* ------------------------------------------------------------------------

\* The values that hold a reference to the native context c: the Context
\* values and every Device, Channel and Buffer, which carry one.
Holders(c) ==
    ctxVals[c] + devVals[c] + Cardinality(chanVals[c])
    + Cardinality({b \in Bufs : buf[b].ctx = c /\ buf[b].st = "live"})
    + Cardinality({t \in Threads : pc[t].op = "drop_fields" /\ buf[pc[t].obj].ctx = c})

Dropping(c) == \E t \in Threads : pc[t].op = "drop_inner" /\ pc[t].obj = c

CreateOk(c) == enabled[c] # {} /\ (needsTrig[c] => trig[c])

\* C1 (as claimed): create_buffer fails if and only if no channel of the
\* device is enabled at the moment of the call.
C1_FailsIffNoChannel ==
    [][\A t \in Threads, c \in Ctxs, n \in 1..MaxSamples :
        create_buffer(t, c, n) => (last'.ok <=> enabled[c] # {})]_vars

\* C1 (amended): create_buffer fails whenever no channel is enabled at the
\* moment of the call; with a channel enabled it returns a Buffer unless the
\* device is a triggered device that has no trigger assigned.
C1_FailsIffNoChannelOrNoTrigger ==
    [][\A t \in Threads, c \in Ctxs, n \in 1..MaxSamples :
        create_buffer(t, c, n) =>
            /\ last'.op = "create_buffer"
            /\ last'.ok <=> CreateOk(c)
            /\ enabled[c] = {} => ~last'.ok
            /\ last'.ok => /\ buf'[last'.val].st = "live"
                           /\ buf'[last'.val].mask = enabled[c]
                           /\ buf'[last'.val].cap = n]_vars

\* C1 witness: create_buffer has returned a Buffer on a triggered device
\* with one of its channels enabled.
C1_Witness ==
    /\ last.op = "create_buffer"
    /\ last.ok
    /\ needsTrig[last.obj]
    /\ buf[last.val].st = "live"
    /\ Cardinality(buf[last.val].mask) = 1

\* C2: whatever the interleaving of clones and drops of the values that
\* share a native handle, the native context is destroyed at most once,
\* never while a value still refers to it, and it is destroyed once the
\* last value is gone.
C2_DestroyedOnceByLastDrop ==
    \A c \in Ctxs :
        /\ ctxDestroys[c] <= 1
        /\ ctxState[c] = "destroyed" <=> ctxDestroys[c] = 1
        /\ ctxState[c] = "destroyed" => Holders(c) = 0
        /\ (ctxState[c] # "none" /\ Holders(c) = 0 /\ ~Dropping(c))
              => ctxState[c] = "destroyed"
        /\ Dropping(c) => Holders(c) = 0 /\ ctxState[c] = "live"

\* C2 witness: every value was dropped and the native context is destroyed.
C2_Witness ==
    /\ ctxState[1] = "destroyed"
    /\ ctxDestroys[1] = 1
    /\ \A t \in Threads : pc[t] = Idle

\* C3: the native context is not destroyed while a Device, a Channel or a
\* Buffer derived from it exists, and the native buffer of every Buffer is
\* destroyed before the context it was created through.
C3_ContextOutlivesDerived ==
    /\ ~misuse
    /\ \A c \in Ctxs :
        ctxState[c] = "destroyed" =>
            /\ devVals[c] = 0
            /\ chanVals[c] = {}
            /\ \A b \in Bufs : buf[b].ctx = c =>
                  buf[b].st = "dropped" /\ buf[b].native = "destroyed"
    /\ \A b \in Bufs : buf[b].native = "live" => ctxState[buf[b].ctx] = "live"

\* C3 witness: the user has dropped the Context, the Device and the
\* Channels, and the Buffer is still there with its context live.
C3_Witness ==
    \E b \in Bufs :
        /\ buf[b].st = "live"
        /\ ctxVals[buf[b].ctx] = 0
        /\ devVals[buf[b].ctx] = 0
        /\ chanVals[buf[b].ctx] = {}
        /\ ctxState[buf[b].ctx] = "live"

\* C4: the native buffer is released exactly once, when the Buffer value is
\* dropped; no other operation releases it; after the release no native
\* call is made on it and nothing is read from it.
C4_BufferReleasedOnceAtDrop ==
    /\ ~misuse
    /\ \A b \in Bufs :
        /\ buf[b].destroys <= 1
        /\ buf[b].st = "none" => buf[b].native = "none" /\ buf[b].destroys = 0
        /\ buf[b].st = "live" => buf[b].native = "live" /\ buf[b].destroys = 0
        /\ buf[b].st = "dropped" => buf[b].native = "destroyed" /\ buf[b].destroys = 1
    /\ \A t \in Threads :
        InTransfer(t) => buf[pc[t].obj].st = "live" /\ buf[pc[t].obj].native = "live"
    /\ ~it.freed

\* C5: cancel never reports an error, leaves the buffer cancelled, and a
\* cancel of a cancelled buffer changes nothing of the buffer.
C5_CancelIdempotent ==
    [][\A t \in Threads, b \in Bufs :
        cancel(t, b) =>
            /\ last'.ok
            /\ buf'[b].cancelled
            /\ buf[b].cancelled => buf' = buf]_vars

\* C5 witness: cancel has been called on a buffer that was cancelled before.
C5_Witness ==
    /\ last.op = "cancel"
    /\ last.again
    /\ buf[last.obj].cancelled

\* C6: once a Buffer is cancelled it stays cancelled as long as it exists,
\* and every refill, push or push_partial on it returns an error.
C6_CancelSticky ==
    [][/\ \A b \in Bufs :
            (buf[b].cancelled /\ buf'[b].st = "live") => buf'[b].cancelled
       /\ \A t \in Threads :
            (InTransfer(t) /\ buf[pc[t].obj].cancelled /\ pc'[t] = Idle)
                => (last'.op = pc[t].op /\ ~last'.ok)]_vars

\* C6 witness: a refill on a cancelled buffer has returned the error of
\* the cancellation.
C6_Witness ==
    /\ last.op = "refill"
    /\ ~last.ok
    /\ last.val = 9
    /\ buf[last.obj].st = "live"
    /\ buf[last.obj].cancelled

\* C26: enable and disable leave every Buffer as it is; a Buffer captures
\* the channels that were enabled when create_buffer ran, and keeps that
\* set for as long as it lives.
C26_EnableLeavesBuffersAlone ==
    [][/\ \A t \in Threads, c \in Ctxs, ch \in Chans :
            (enable(t, c, ch) \/ disable(t, c, ch)) => buf' = buf
       /\ \A t \in Threads, c \in Ctxs, n \in 1..MaxSamples :
            (create_buffer(t, c, n) /\ last'.ok) =>
                buf'[last'.val].mask = enabled[c]
       /\ \A b \in Bufs :
            (buf[b].st = "live" /\ buf'[b].st = "live") =>
                buf'[b].mask = buf[b].mask]_vars

\* C26 witness: a channel was disabled after the Buffer was created: the
\* Buffer still captures it.
C26_Witness ==
    \E b \in Bufs, ch \in Chans :
        /\ buf[b].st = "live"
        /\ ch \in buf[b].mask
        /\ ch \notin enabled[buf[b].ctx]

\* ------------------------------------------------------------------------
\* SpecLive: transfers that wait for the hardware, and their cancellation
\* ------------------------------------------------------------------------

\* Thread 1 holds a Buffer it has just created; every thread holds a clone
\* of the Context (InnerContext is Send and Sync).
InitLive ==
    /\ ctxState = [c \in Ctxs |-> IF c = 1 THEN "live" ELSE "none"]
    /\ ctxDestroys = [c \in Ctxs |-> 0]
    /\ inners = [c \in Ctxs |-> 0]
    /\ strong = [c \in Ctxs |-> IF c = 1 THEN NThreads + 1 ELSE 0]
    /\ ctxVals = [c \in Ctxs |-> IF c = 1 THEN NThreads ELSE 0]
    /\ devVals = [c \in Ctxs |-> 0]
    /\ chanVals = [c \in Ctxs |-> {}]
    /\ width = [ch \in Chans |-> 2]
    /\ \E m \in SUBSET Chans \ {{}}, n \in 1..MaxSamples :
        /\ enabled = [c \in Ctxs |-> IF c = 1 THEN m ELSE {}]
        /\ buf = [b \in Bufs |-> IF b = 1
                    THEN [st |-> "live", owner |-> 1, ctx |-> 1, cap |-> n,
                          mask |-> m, cancelled |-> FALSE, native |-> "live",
                          destroys |-> 0]
                    ELSE NoBuf]
    /\ last = Ret("create_buffer", 1, TRUE, 1)
    /\ needsTrig = [c \in Ctxs |-> FALSE]
    /\ trig = [c \in Ctxs |-> FALSE]
    /\ pc = [t \in Threads |-> Idle]
    /\ timeout \in {f \in [Ctxs -> TimeoutVals] : \A c \in Ctxs : c # 1 => f[c] = 0}
    /\ cancelReq = [b \in Bufs |-> FALSE]
    /\ misuse = FALSE
    /\ it = NoIter
    /\ ndev = [c \in Ctxs |-> IF c = 1 THEN 1 ELSE 0]
    /\ nattrs = 0
    /\ iter = NoIndexIter
    /\ fmt = NoFmt
    /\ mem = <<>>
    /\ attr = <<>>
    /\ res = NoRes

\* A thread that can call cancel on the Buffer does so once the
\* cancellation was asked for.
cancel_requested(t, b) == cancelReq[b] /\ cancel(t, b)

NextLive ==
    \/ \E t \in Threads, b \in Bufs : refill(t, b)
    \/ \E t \in Threads, b \in Bufs : push(t, b)
    \/ \E t \in Threads : transfer_done(t)
    \/ \E t \in Threads : transfer_timeout(t)
    \/ \E t \in Threads : transfer_cancelled(t)
    \/ \E b \in Bufs : request_cancel(b)
    \/ \E t \in Threads, b \in Bufs : cancel_requested(t, b)
    \/ \E t \in Threads, c \in Ctxs, ms \in TimeoutVals : set_timeout_ms(t, c, ms)

\* The timeout elapses when there is one, a cancelled call returns, and a
\* cancellation asked for is made by a thread that can make it again and
\* again.  The hardware need not ever have the samples.
SpecLive ==
    /\ InitLive
    /\ [][NextLive]_vars
    /\ \A t \in Threads :
        /\ WF_vars(transfer_timeout(t))
        /\ WF_vars(transfer_cancelled(t))
        /\ \A b \in Bufs : SF_vars(cancel_requested(t, b))

\* C7: a refill or push that waits for the hardware returns once another
\* thread wants the Buffer cancelled: the cancel is made while the transfer
\* waits, and the transfer does not wait forever.
C7_CancelUnblocksTransfer ==
    \A t \in Threads :
        (InTransfer(t) /\ cancelReq[pc[t].obj]) ~> ~InTransfer(t)

\* ------------------------------------------------------------------------
\* SpecIndex: lookups by index and the iterators built on them
\* ------------------------------------------------------------------------

\* The values of usize, and the largest count a c_uint can hold.
Usizes == 0..(2 ^ UsizeBits - 1)
MaxCount == 2 ^ CUintBits - 1

\* The variables the index functions leave alone.
idxFixed == <<ndev, nattrs, fmt, mem, attr, res, inners>>

\* Context::devices: a DeviceIterator at index 0.
devices(t, c) ==
    /\ pc[t] = Idle
    /\ ctxVals[c] > 0
    /\ iter' = [kind |-> "devices", idx |-> 0, out |-> <<>>, done |-> FALSE]
    /\ UNCHANGED <<ctxState, ctxDestroys, strong, ctxVals, devVals, chanVals,
                   enabled, needsTrig, trig, buf, pc, timeout, cancelReq, last,
                   misuse, width, it, idxFixed>>

\* (mutant) the index is not moved on.
next_idx_same(idx) == idx

\* self.idx += 1
next_idx(idx) == idx + 1

\* DeviceIterator::next: get_device at the index; Some(dev) and the index
\* moves on, or None.
DeviceIterator_next(t, c) ==
    /\ iter.kind = "devices"
    /\ Context_get_device(t, c, iter.idx)
    /\ iter' = IF last'.ok
               THEN [iter EXCEPT !.idx = next_idx(@), !.out = Append(@, last'.val)]
               ELSE [iter EXCEPT !.done = TRUE]
    /\ UNCHANGED idxFixed

\* Device::attributes: an AttrIterator at index 0.
attributes(t, c) ==
    /\ pc[t] = Idle
    /\ devVals[c] > 0
    /\ iter' = [kind |-> "attributes", idx |-> 0, out |-> <<>>, done |-> FALSE]
    /\ UNCHANGED <<ctxState, ctxDestroys, strong, ctxVals, devVals, chanVals,
                   enabled, needsTrig, trig, buf, pc, timeout, cancelReq, last,
                   misuse, width, it, idxFixed>>

\* iio_device_get_attr: the name of the attribute at the index (the name of
\* the attribute at index i is taken to be i + 1), or NULL.
iio_device_get_attr(i) == IF i < nattrs THEN i + 1 ELSE 0

\* Device::get_attr: cstring_opt(pstr).ok_or(Error::InvalidIndex).
Device_get_attr(idx) ==
    LET pstr == iio_device_get_attr(as_c_uint(idx)) IN
    IF is_null(pstr) THEN Ret("get_attr", 1, FALSE, 0)
    ELSE Ret("get_attr", 1, TRUE, pstr - 1)

\* AttrIterator::next (device.rs): get_attr at the index; Some(name) and the
\* index moves on, or None.
AttrIterator_next(t, c) ==
    /\ pc[t] = Idle
    /\ iter.kind = "attributes"
    /\ devVals[c] > 0
    /\ misuse' = UseCtx(c)
    /\ last' = Device_get_attr(iter.idx)
    /\ iter' = IF last'.ok
               THEN [iter EXCEPT !.idx = next_idx(@), !.out = Append(@, last'.val)]
               ELSE [iter EXCEPT !.done = TRUE]
    /\ UNCHANGED <<ctxState, ctxDestroys, strong, ctxVals, devVals, chanVals,
                   enabled, needsTrig, trig, buf, pc, timeout, cancelReq,
                   width, it, idxFixed>>

\* A context with any number of devices, whose device has any number of
\* attributes, has just been opened.
InitIndex ==
    /\ ctxState = [c \in Ctxs |-> IF c = 1 THEN "live" ELSE "none"]
    /\ ctxDestroys = [c \in Ctxs |-> 0]
    /\ inners = [c \in Ctxs |-> 0]
    /\ strong = [c \in Ctxs |-> IF c = 1 THEN 1 ELSE 0]
    /\ ctxVals = [c \in Ctxs |-> IF c = 1 THEN 1 ELSE 0]
    /\ devVals = [c \in Ctxs |-> 0]
    /\ chanVals = [c \in Ctxs |-> {}]
    /\ enabled = [c \in Ctxs |-> {}]
    /\ needsTrig = [c \in Ctxs |-> FALSE]
    /\ trig = [c \in Ctxs |-> FALSE]
    /\ buf = [b \in Bufs |-> NoBuf]
    /\ pc = [t \in Threads |-> Idle]
    /\ timeout = [c \in Ctxs |-> 0]
    /\ cancelReq = [b \in Bufs |-> FALSE]
    /\ last = NoOp
    /\ misuse = FALSE
    /\ width = [ch \in Chans |-> 2]
    /\ it = NoIter
    /\ ndev \in {f \in [Ctxs -> 0..MaxCount] : \A c \in Ctxs : c # 1 => f[c] = 0}
    /\ nattrs \in 0..MaxCount
    /\ iter = NoIndexIter
    /\ fmt = NoFmt
    /\ mem = <<>>
    /\ attr = <<>>
    /\ res = NoRes

NextIndex ==
    \/ \E t \in Threads, c \in Ctxs, idx \in Usizes : get_device(t, c, idx)
    \/ \E t \in Threads, c \in Ctxs : drop_device(t, c)
    \/ \E t \in Threads, c \in Ctxs : devices(t, c)
    \/ \E t \in Threads, c \in Ctxs : DeviceIterator_next(t, c)
    \/ \E t \in Threads, c \in Ctxs : attributes(t, c)
    \/ \E t \in Threads, c \in Ctxs : AttrIterator_next(t, c)

SpecIndex == InitIndex /\ [][NextIndex]_vars

\* C15: get_device(i) fails with InvalidIndex for every index i >=
\* num_devices() of the index type and returns a device for every
\* i < num_devices().
C15_InvalidIndexBeyondCount ==
    [][\A t \in Threads, c \in Ctxs, idx \in Usizes :
        get_device(t, c, idx) => (last'.ok <=> idx < ndev[c])]_vars

\* The indices 0, 1, ..., n-1 in order.
UpTo(n) == [i \in 1..n |-> i - 1]

\* C16: the iterators of Context::devices() and Device::attributes() yield
\* the items at the indices 0, 1, 2, ... in order, num_devices()
\* respectively num_attrs() of them when they end, and a new iterator
\* begins at index 0 again.
C16_IteratorsYieldCount ==
    LET n == IF iter.kind = "devices" THEN ndev[1] ELSE nattrs IN
    iter.kind # "none" =>
        /\ iter.out = UpTo(iter.idx)
        /\ iter.idx <= n
        /\ iter.done => iter.idx = n

\* C16 witness: an iterator of devices has yielded every device of a
\* context of several devices and has ended.
C16_Witness ==
    /\ iter.kind = "devices"
    /\ iter.done
    /\ ndev[1] = MaxCount
    /\ iter.out = UpTo(MaxCount)

\* ------------------------------------------------------------------------
\* SpecChan: the samples of a channel, read, written and converted
\* ------------------------------------------------------------------------

\* The largest raw sample value of the model.
MaxVal == 1
Vals == 0..MaxVal

\* The sample types T of the model: i8 .. i64, u8 .. u64 and f32, each
\* standing for its TypeId.
Types ==
    [kind : {"int"}, signed : BOOLEAN, size : {1, 2, 4, 8}]
    \cup [kind : {"float"}, signed : {TRUE}, size : {4}]

NoType == [kind |-> "none", signed |-> FALSE, size |-> 0]

\* The data formats of the model.
Formats == [is_signed : BOOLEAN, length : {8, 16, 24, 32}, repeat : {1, 2},
            shift : {0, 1}]

\* (mutant) the valid bits are counted, not the length of the sample.
DataFormat_byte_length_bits(f) == (f.bits \div 8) * f.repeat

\* DataFormat::byte_length of a data format.
DataFormat_byte_length(f) == (f.length \div 8) * f.repeat

\* (mutant) the signedness of the format is not looked at.
type_of_unsigned(f) ==
    IF DataFormat_byte_length(f) \in {1, 2, 4, 8}
    THEN [kind |-> "int", signed |-> FALSE, size |-> DataFormat_byte_length(f)]
    ELSE NoType

\* DataFormat::type_of: Some(TypeId) of the integer of the byte length and
\* signedness of the format, None (NoType) for any other byte length.
type_of(f) ==
    LET nbytes == DataFormat_byte_length(f) IN
    IF f.is_signed
    THEN IF nbytes \in {1, 2, 4, 8}
         THEN [kind |-> "int", signed |-> TRUE, size |-> nbytes] ELSE NoType
    ELSE IF nbytes \in {1, 2, 4, 8}
         THEN [kind |-> "int", signed |-> FALSE, size |-> nbytes] ELSE NoType

\* iio_channel_convert: hardware format to host format, the right shift of
\* the data format.
iio_channel_convert(f, v) == v \div (2 ^ f.shift)

\* iio_channel_convert_inverse: host format to hardware format.
iio_channel_convert_inverse(f, v) == v * (2 ^ f.shift)

\* The variables the channel functions leave alone.
chanFixed == <<ctxState, ctxDestroys, strong, ctxVals, devVals, chanVals, enabled,
               needsTrig, trig, buf, pc, timeout, cancelReq, last, misuse,
               width, it, ndev, nattrs, iter, fmt, attr, inners>>

\* What a Channel function returned: the result, and the native function it
\* called with the byte counts that went in and came back.
ChanRes(op, T, ok, err, vec, native, sz_in, sz) ==
    [op |-> op, T |-> T, ok |-> ok, err |-> err, vec |-> vec, native |-> native,
     sz_in |-> sz_in, sz |-> sz]

\* (mutant) the vector is never truncated.
truncate_never(n, sz, sz_item) == n

\* if sz < sz_in { v.truncate(sz / sz_item) }: the length of the vector.
truncate(n, sz, sz_item) == IF sz < n * sz_item THEN sz \div sz_item ELSE n

\* The body of Channel::read and Channel::read_raw: native is the native
\* function called, conv what it does to the samples, and sz the number of
\* bytes it says it has copied, which the wrapper does not trust.
read_with(op, native, T, conv) ==
    LET n == buf[1].cap
        sz_item == T.size
        sz_in == n * sz_item
    IN
    /\ buf[1].st = "live"
    /\ IF type_of(fmt) # T
       THEN res' = ChanRes(op, T, FALSE, "WrongDataType", <<>>, "none", 0, 0)
       ELSE \E sz \in 0..(sz_in + 1) :
            IF sz > sz_in
            THEN res' = ChanRes(op, T, FALSE, "BadReturnSize", <<>>, native, sz_in, sz)
            ELSE res' = ChanRes(op, T, TRUE, "none",
                                [i \in 1..truncate(n, sz, sz_item) |-> conv[i]],
                                native, sz_in, sz)
    /\ UNCHANGED <<chanFixed, mem>>

\* Channel::read: iio_channel_read demultiplexes and converts.
read(T) ==
    read_with("read", "iio_channel_read", T,
              [i \in 1..Len(mem) |-> iio_channel_convert(fmt, mem[i])])

\* Channel::read_raw: iio_channel_read_raw demultiplexes.
read_raw(T) ==
    read_with("read_raw", "iio_channel_read_raw", T, mem)

\* iio_channel_write: the samples are converted to the hardware format and
\* multiplexed into the buffer, as many as the buffer holds; the number of
\* bytes written is returned.
iio_channel_write(data) ==
    [i \in 1..Len(mem) |-> IF i <= Len(data)
                           THEN iio_channel_convert_inverse(fmt, data[i])
                           ELSE mem[i]]

\* The body of Channel::write and Channel::write_raw.
write_with(op, native, T, data, stored) ==
    LET sz_item == T.size
        sz_in == Len(data) * sz_item
        written == IF Len(data) <= Len(mem) THEN Len(data) ELSE Len(mem)
        sz == written * sz_item
    IN
    /\ buf[1].st = "live"
    /\ IF type_of(fmt) # T
       THEN /\ res' = ChanRes(op, T, FALSE, "WrongDataType", <<>>, "none", 0, 0)
            /\ UNCHANGED mem
       ELSE /\ res' = [ChanRes(op, T, TRUE, "none", data, native, sz_in, sz)
                         EXCEPT !.sz = sz \div sz_item]
            /\ mem' = stored
    /\ UNCHANGED chanFixed

\* Channel::write: calls iio_channel_write.
write(T, data) ==
    write_with("write", "iio_channel_write", T, data, iio_channel_write(data))

\* Channel::write_raw: calls iio_channel_write as well.
write_raw(T, data) ==
    write_with("write_raw", "iio_channel_write", T, data, iio_channel_write(data))

\* (mutant) the result starts from T::default().
retval_default(val) == 0

\* let mut retval = val;
retval_init(val) == val

\* The body of Channel::convert and Channel::convert_inverse.
convert_with(op, native, T, val, conv) ==
    /\ IF type_of(fmt) = T
       THEN res' = ChanRes(op, T, TRUE, "none", <<val, conv>>, native, 0, 0)
       ELSE res' = ChanRes(op, T, TRUE, "none", <<val, retval_init(val)>>, "none", 0, 0)
    /\ UNCHANGED <<chanFixed, mem>>

\* Channel::convert.
convert(T, val) ==
    convert_with("convert", "iio_channel_convert", T, val,
                 iio_channel_convert(fmt, val))

\* Channel::convert_inverse.
convert_inverse(T, val) ==
    convert_with("convert_inverse", "iio_channel_convert_inverse", T, val,
                 iio_channel_convert_inverse(fmt, val))

\* The sample sequences handed to write and write_raw.
RECURSIVE SeqsUpTo(_)
SeqsUpTo(n) ==
    IF n = 0 THEN {<<>>}
    ELSE SeqsUpTo(n - 1) \cup [1..n -> Vals]

\* A Channel of any data format, and a Buffer of any capacity that holds any
\* raw samples of the channel.
InitChan ==
    /\ ctxState = [c \in Ctxs |-> IF c = 1 THEN "live" ELSE "none"]
    /\ ctxDestroys = [c \in Ctxs |-> 0]
    /\ inners = [c \in Ctxs |-> 0]
    /\ strong = [c \in Ctxs |-> IF c = 1 THEN 3 ELSE 0]
    /\ ctxVals = [c \in Ctxs |-> IF c = 1 THEN 1 ELSE 0]
    /\ devVals = [c \in Ctxs |-> 0]
    /\ chanVals = [c \in Ctxs |-> IF c = 1 THEN {1} ELSE {}]
    /\ enabled = [c \in Ctxs |-> IF c = 1 THEN {1} ELSE {}]
    /\ needsTrig = [c \in Ctxs |-> FALSE]
    /\ trig = [c \in Ctxs |-> FALSE]
    /\ fmt \in Formats
    /\ \E n \in 1..MaxSamples :
        /\ buf = [b \in Bufs |-> IF b = 1
                    THEN [st |-> "live", owner |-> 1, ctx |-> 1, cap |-> n,
                          mask |-> {1}, cancelled |-> FALSE, native |-> "live",
                          destroys |-> 0]
                    ELSE NoBuf]
        /\ mem \in [1..n -> Vals]
    /\ pc = [t \in Threads |-> Idle]
    /\ timeout = [c \in Ctxs |-> 0]
    /\ cancelReq = [b \in Bufs |-> FALSE]
    /\ last = NoOp
    /\ misuse = FALSE
    /\ width = [ch \in Chans |-> 2]
    /\ it = NoIter
    /\ ndev = [c \in Ctxs |-> IF c = 1 THEN 1 ELSE 0]
    /\ nattrs = 0
    /\ iter = NoIndexIter
    /\ attr = <<>>
    /\ res = NoRes

NextChan ==
    \/ \E T \in Types : read(T)
    \/ \E T \in Types : read_raw(T)
    \/ \E T \in Types, data \in SeqsUpTo(MaxSamples + 1) : write(T, data)
    \/ \E T \in Types, data \in SeqsUpTo(MaxSamples + 1) : write_raw(T, data)
    \/ \E T \in Types, val \in Vals : convert(T, val)
    \/ \E T \in Types, val \in Vals : convert_inverse(T, val)

SpecChan == InitChan /\ [][NextChan]_vars

\* The integer type of the signedness and byte width of the data format, if
\* the byte width is 1, 2, 4 or 8.
Selected(T) ==
    /\ T.kind = "int"
    /\ T.signed = fmt.is_signed
    /\ T.size = (fmt.length \div 8) * fmt.repeat
    /\ T.size \in {1, 2, 4, 8}

C12_ReadLengthFollowsReturn ==
    (res.op \in {"read", "read_raw"} /\ Selected(res.T)) =>
        LET n == buf[1].cap IN
        /\ res.sz > n * res.T.size => res.err = "BadReturnSize"
        /\ res.sz <= n * res.T.size =>
            /\ res.ok
            /\ Len(res.vec) = res.sz \div res.T.size
            /\ Len(res.vec) <= n
            /\ res.sz < n * res.T.size => Len(res.vec) < n

\* C12 witness: a read_raw got a short native return and gave a vector of
\* fewer items than the capacity, and not an empty one.
C12_Witness ==
    /\ res.op = "read_raw"
    /\ res.ok
    /\ Len(res.vec) > 0
    /\ Len(res.vec) < buf[1].cap

\* C13: convert and convert_inverse call the native conversion exactly when
\* T is the sample type of the channel; for any other T they return their
\* input unchanged.
C13_ConvertOnlyMatchingType ==
    res.op \in {"convert", "convert_inverse"} =>
        /\ res.native # "none" <=> Selected(res.T)
        /\ Selected(res.T) => res.native = "iio_channel_" \o res.op
        /\ ~Selected(res.T) => res.vec[2] = res.vec[1]

\* C13 witness: convert was called with a value other than 0 and a T that
\* is not the type of the channel, and gave the value back.
C13_Witness ==
    /\ res.op = "convert"
    /\ res.native = "none"
    /\ res.vec[1] # 0
    /\ res.vec[2] = res.vec[1]
    /\ res.T.size = DataFormat_byte_length(fmt)

\* C14: write_raw multiplexes the samples it is given into the buffer as
\* they are, without the conversion that write applies.
C14_WriteRawStoresUnconverted ==
    (res.op = "write_raw" /\ res.ok) =>
        \A i \in 1..Len(mem) : i <= Len(res.vec) => mem[i] = res.vec[i]

\* ------------------------------------------------------------------------
\* SpecAttr: attribute values and their text
\* ------------------------------------------------------------------------

\* The host types of an attribute value: bool, i32, u32, i64, u64, i128,
\* u128 and String.
AttrTypes ==
    {[kind |-> "bool", signed |-> FALSE, bits |-> 1],
     [kind |-> "String", signed |-> FALSE, bits |-> 0]}
    \cup [kind : {"int"}, signed : BOOLEAN, bits : {Bits32, Bits64, Bits128}]

\* The values of an integer type.
IntRange(T) ==
    IF T.signed THEN (-(2 ^ (T.bits - 1)))..(2 ^ (T.bits - 1) - 1)
    ELSE 0..(2 ^ T.bits - 1)

\* The characters of the short texts of the model.
Chars == {"0", "1", "2", "7", "-", "+", " ", "\n", "a"}

\* The texts of the model: every text of up to two characters, and some
\* longer ones.
Texts ==
    {<<>>} \cup [1..1 -> Chars] \cup [1..2 -> Chars]
    \cup {<<" ", "0", " ", "\n">>, <<" ", "1", "\n">>, <<"1", "2", "3">>,
          <<"-", "1", "2", "8">>, <<"0", "0", "7">>, <<"1", "0", "2", "4">>,
          <<"h", "e", "l", "l", "o">>, <<"t", "r", "u", "e">>,
          <<"f", "a", "l", "s", "e">>, <<"1", " ", "2">>, <<"a", "NUL", "b">>}

\* The values of a host type.
AttrValues(T) ==
    IF T.kind = "bool" THEN BOOLEAN
    ELSE IF T.kind = "String" THEN Texts
    ELSE IntRange(T)

DigitChars == <<"0", "1", "2", "3", "4", "5", "6", "7", "8", "9">>
IsDigit(ch) == \E d \in 1..10 : DigitChars[d] = ch
DigitOf(ch) == (CHOOSE d \in 1..10 : DigitChars[d] = ch) - 1

\* The decimal digits of a natural number.
RECURSIVE Decimal(_)
Decimal(n) ==
    IF n < 10 THEN <<DigitChars[n + 1]>>
    ELSE Decimal(n \div 10) \o <<DigitChars[(n % 10) + 1]>>

\* The number a text of digits stands for.
RECURSIVE ValueOf(_)
ValueOf(ds) ==
    IF ds = <<>> THEN 0
    ELSE 10 * ValueOf(SubSeq(ds, 1, Len(ds) - 1)) + DigitOf(ds[Len(ds)])

\* (mutant) the sign is not written.
fmt_Display_unsigned(T, v) ==
    IF T.kind = "int" THEN Decimal(IF v < 0 THEN -v ELSE v) ELSE v

\* fmt::Display, through format!("{}", self): the decimal text of an
\* integer, the text of a string.
fmt_Display(T, v) ==
    IF T.kind = "int"
    THEN IF v < 0 THEN <<"-">> \o Decimal(-v) ELSE Decimal(v)
    ELSE v

\* (mutant) bool without its own impl: the Display text of the bool.
to_attr_bool_display(b) ==
    IF b THEN <<"t", "r", "u", "e">> ELSE <<"f", "a", "l", "s", "e">>

\* impl ToAttribute for bool.
to_attr_bool(b) == IF b THEN <<"1">> ELSE <<"0">>

\* ToAttribute::to_attr.
to_attr(T, v) == IF T.kind = "bool" THEN to_attr_bool(v) ELSE fmt_Display(T, v)

\* str::trim: the text without the white space at its ends.
Whitespace == {" ", "\n", "\t"}

RECURSIVE trim_start(_)
trim_start(s) ==
    IF s # <<>> /\ Head(s) \in Whitespace THEN trim_start(Tail(s)) ELSE s

RECURSIVE trim_end(_)
trim_end(s) ==
    IF s # <<>> /\ s[Len(s)] \in Whitespace
    THEN trim_end(SubSeq(s, 1, Len(s) - 1)) ELSE s

\* (mutant) the text is taken as it is.
trim_none(s) == s

trim(s) == trim_end(trim_start(s))

\* What a conversion gives: Ok(val) or Err(err).
Conv(ok, err, val) == [ok |-> ok, err |-> err, val |-> val]

\* FromStr for the integer types: an optional sign ("+", and "-" for the
\* signed types), then one digit or more and nothing else; the value must
\* be one of the type.
from_str(T, s) ==
    LET neg == T.signed /\ s # <<>> /\ s[1] = "-"
        digits == IF s # <<>> /\ (s[1] = "+" \/ neg) THEN Tail(s) ELSE s
    IN
    IF digits = <<>> \/ Len(digits) > 5
          \/ \E i \in 1..Len(digits) : ~IsDigit(digits[i])
    THEN Conv(FALSE, "ParseIntError", 0)
    ELSE LET v == IF neg THEN -ValueOf(digits) ELSE ValueOf(digits) IN
         IF v \in IntRange(T) THEN Conv(TRUE, "none", v)
         ELSE Conv(FALSE, "ParseIntError", 0)

\* FromAttribute::from_attr: the impl for bool, the default (FromStr, with
\* any error mapped to StringConversionError) for the integers, and String,
\* whose FromStr cannot fail.
from_attr(T, s) ==
    IF T.kind = "bool" THEN Conv(TRUE, "none", trim(s) # <<"0">>)
    ELSE IF T.kind = "String" THEN Conv(TRUE, "none", s)
    ELSE LET r == from_str(T, s) IN
         IF r.ok THEN r ELSE Conv(FALSE, "StringConversionError", 0)

\* The variables the attribute functions leave alone.
attrFixed == <<ctxState, ctxDestroys, strong, ctxVals, devVals, chanVals, enabled,
               needsTrig, trig, buf, pc, timeout, cancelReq, last, misuse,
               width, it, ndev, nattrs, iter, fmt, mem, inners>>

\* Channel::attr_write: to_attr, then attr_write_str, whose CString::new
\* refuses a text with a NUL in it; iio_channel_attr_write stores the text.
Channel_attr_write ==
    /\ res.op = "arg"
    /\ LET sval == to_attr(res.T, res.val) IN
        IF \E i \in 1..Len(sval) : sval[i] = "NUL"
        THEN /\ res' = [op |-> "attr_write", T |-> res.T, val |-> res.val,
                        text |-> sval, ok |-> FALSE, err |-> "NulError",
                        wrote |-> FALSE]
             /\ UNCHANGED attr
        ELSE /\ res' = [op |-> "attr_write", T |-> res.T, val |-> res.val,
                        text |-> sval, ok |-> TRUE, err |-> "none",
                        wrote |-> TRUE]
             /\ attr' = sval
    /\ UNCHANGED attrFixed

\* Channel::attr_read::<T>: attr_read_str, then T::from_attr.  The result
\* tells whether the text it read is the one that was just written as a T,
\* and from which value.
Channel_attr_read(T) ==
    /\ LET r == from_attr(T, attr)
           wrote == res.op = "attr_write" /\ res.ok /\ res.T = T
       IN
        res' = [op |-> "attr_read", T |-> T, val |-> r.val, text |-> attr,
                ok |-> r.ok, err |-> r.err, wrote |-> wrote,
                arg |-> IF wrote THEN res.val ELSE r.val]
    /\ UNCHANGED <<attrFixed, attr>>

\* The program is about to write a value of a host type to an attribute
\* that holds some text.
InitAttr ==
    /\ ctxState = [c \in Ctxs |-> IF c = 1 THEN "live" ELSE "none"]
    /\ ctxDestroys = [c \in Ctxs |-> 0]
    /\ inners = [c \in Ctxs |-> 0]
    /\ strong = [c \in Ctxs |-> IF c = 1 THEN 2 ELSE 0]
    /\ ctxVals = [c \in Ctxs |-> IF c = 1 THEN 1 ELSE 0]
    /\ devVals = [c \in Ctxs |-> 0]
    /\ chanVals = [c \in Ctxs |-> IF c = 1 THEN {1} ELSE {}]
    /\ enabled = [c \in Ctxs |-> {}]
    /\ needsTrig = [c \in Ctxs |-> FALSE]
    /\ trig = [c \in Ctxs |-> FALSE]
    /\ buf = [b \in Bufs |-> NoBuf]
    /\ pc = [t \in Threads |-> Idle]
    /\ timeout = [c \in Ctxs |-> 0]
    /\ cancelReq = [b \in Bufs |-> FALSE]
    /\ last = NoOp
    /\ misuse = FALSE
    /\ width = [ch \in Chans |-> 2]
    /\ it = NoIter
    /\ ndev = [c \in Ctxs |-> IF c = 1 THEN 1 ELSE 0]
    /\ nattrs = 1
    /\ iter = NoIndexIter
    /\ fmt = NoFmt
    /\ mem = <<>>
    /\ \/ /\ attr \in Texts \ {<<"a", "NUL", "b">>}
          /\ res = NoRes
       \/ /\ attr = <<"0">>
          /\ \E T \in AttrTypes : \E v \in AttrValues(T) :
                res = [op |-> "arg", T |-> T, val |-> v]

NextAttr ==
    \/ Channel_attr_write
    \/ \E T \in AttrTypes : Channel_attr_read(T)

SpecAttr == InitAttr /\ [][NextAttr]_vars

\* C17: a value of a host type that was written to an attribute is the
\* value that a read of the attribute as the same type returns.
C17_AttributeRoundTrip ==
    (res.op = "attr_read" /\ res.wrote) =>
        /\ res.ok
        /\ res.val = res.arg

\* C17 witness: a negative 128-bit integer was written and read back.
C17_Witness ==
    /\ res.op = "attr_read"
    /\ res.wrote
    /\ res.T = [kind |-> "int", signed |-> TRUE, bits |-> Bits128]
    /\ res.ok
    /\ res.arg < -(2 ^ (Bits64 - 1))
    /\ res.val = res.arg

\* The plain decimal text of an integer: "-" for a negative one, no "+",
\* no leading 0, and the digits of its magnitude.
PlainDecimal(text, v) ==
    LET ds == IF v < 0 THEN Tail(text) ELSE text IN
    /\ text # <<>>
    /\ v < 0 <=> text[1] = "-"
    /\ ds # <<>>
    /\ \A i \in 1..Len(ds) : IsDigit(ds[i])
    /\ Len(ds) > 1 => ds[1] # "0"
    /\ ValueOf(ds) = (IF v < 0 THEN -v ELSE v)

\* C18: a bool is written as "1" for true and "0" for false, never as
\* "true" or "false"; an integer as its plain decimal text and a string as
\* itself.
C18_BoolSerializedAsDigit ==
    res.op = "attr_write" =>
        /\ res.T.kind = "bool" => res.text = (IF res.val THEN <<"1">> ELSE <<"0">>)
        /\ res.T.kind = "int" => PlainDecimal(res.text, res.val)
        /\ res.T.kind = "String" => res.text = res.val

\* C18 witness: true was written, as "1".
C18_Witness ==
    /\ res.op = "attr_write"
    /\ res.T.kind = "bool"
    /\ res.val = TRUE
    /\ attr = <<"1">>

\* A text that stands for no value of the type: for bool anything but "0"
\* or "1" between white space, for an integer anything FromStr refuses.
Unparsable(T, text) ==
    IF T.kind = "bool" THEN trim(text) \notin {<<"0">>, <<"1">>}
    ELSE IF T.kind = "int" THEN ~from_str(T, text).ok
    ELSE FALSE

\* C19: a read of an attribute whose text stands for no value of the type
\* asked for fails with StringConversionError, for every type, bool too.
C19_UnparsableTextIsError ==
    (res.op = "attr_read" /\ Unparsable(res.T, res.text)) =>
        (~res.ok /\ res.err = "StringConversionError")

\* White space, then "0", then white space.
IsPaddedZero(text) ==
    \E i \in 1..Len(text) :
        /\ text[i] = "0"
        /\ \A j \in 1..Len(text) : j # i => text[j] \in Whitespace

\* C20: a text read as bool is false exactly when it is "0" between any
\* white space, and true for "1"; a plain decimal text read as an integer
\* gives its number ("123" gives 123) and a text read as String gives the
\* text.
C20_BoolParseTrims ==
    res.op = "attr_read" =>
        /\ res.T.kind = "bool" =>
            /\ res.ok
            /\ res.val = FALSE <=> IsPaddedZero(res.text)
            /\ res.text = <<"1">> => res.val = TRUE
        /\ (res.T.kind = "int" /\ res.text = <<"1", "2", "3">>) =>
                res.ok /\ res.val = 123
        /\ res.T.kind = "String" => res.ok /\ res.val = res.text

\* C20 witness: " 0 " and a line end was read as bool and gave false.
C20_Witness ==
    /\ res.op = "attr_read"
    /\ res.T.kind = "bool"
    /\ res.text = <<" ", "0", " ", "\n">>
    /\ res.ok
    /\ res.val = FALSE

\* ------------------------------------------------------------------------
\* SpecRet: the return value of refill, push and push_partial
\* ------------------------------------------------------------------------

\* The values of the native ssize_t.
Ssizes == (-(2 ^ (Bits64 - 1)))..(2 ^ (Bits64 - 1) - 1)

\* iio_buffer_refill, iio_buffer_push or iio_buffer_push_partial returns any
\* value of ssize_t.
iio_buffer_returns(t, ret) ==
    /\ InTransfer(t)
    /\ transfer_return(t, ret)

\* One thread owns a Buffer of a device with one enabled channel.
InitRet ==
    /\ ctxState = [c \in Ctxs |-> IF c = 1 THEN "live" ELSE "none"]
    /\ ctxDestroys = [c \in Ctxs |-> 0]
    /\ inners = [c \in Ctxs |-> 0]
    /\ strong = [c \in Ctxs |-> IF c = 1 THEN 2 ELSE 0]
    /\ ctxVals = [c \in Ctxs |-> IF c = 1 THEN 1 ELSE 0]
    /\ devVals = [c \in Ctxs |-> 0]
    /\ chanVals = [c \in Ctxs |-> {}]
    /\ enabled = [c \in Ctxs |-> IF c = 1 THEN {1} ELSE {}]
    /\ needsTrig = [c \in Ctxs |-> FALSE]
    /\ trig = [c \in Ctxs |-> FALSE]
    /\ buf = [b \in Bufs |-> IF b = 1
                THEN [st |-> "live", owner |-> 1, ctx |-> 1, cap |-> MaxSamples,
                      mask |-> {1}, cancelled |-> FALSE, native |-> "live",
                      destroys |-> 0]
                ELSE NoBuf]
    /\ pc = [t \in Threads |-> Idle]
    /\ timeout = [c \in Ctxs |-> 0]
    /\ cancelReq = [b \in Bufs |-> FALSE]
    /\ last = NoOp
    /\ misuse = FALSE
    /\ width = [ch \in Chans |-> 2]
    /\ it = NoIter
    /\ ndev = [c \in Ctxs |-> IF c = 1 THEN 1 ELSE 0]
    /\ nattrs = 0
    /\ iter = NoIndexIter
    /\ fmt = NoFmt
    /\ mem = <<>>
    /\ attr = <<>>
    /\ res = NoRes

NextRet ==
    \/ \E t \in Threads, b \in Bufs : refill(t, b)
    \/ \E t \in Threads, b \in Bufs : push(t, b)
    \/ \E t \in Threads, b \in Bufs, n \in 1..MaxSamples : push_partial(t, b, n)
    \/ \E t \in Threads, ret \in Ssizes : iio_buffer_returns(t, ret)

SpecRet == InitRet /\ [][NextRet]_vars

\* C21: refill, push and push_partial return Ok(n) with n the native return
\* value whenever that value is not negative, and an error exactly when it
\* is negative.
C21_ReturnsNativeByteCount ==
    [][\A t \in Threads, ret \in Ssizes :
          iio_buffer_returns(t, ret) =>
              /\ pc'[t] = Idle
              /\ last'.ok <=> ret >= 0
              /\ ret >= 0 => last'.val = ret]_vars

\* ------------------------------------------------------------------------
\* SpecFind: Context::find_device
\* ------------------------------------------------------------------------

\* The names a device is looked up by: every text of up to two of these
\* characters.  "NUL" is the character of code 0.
NameChars == {"d", "0", "1", "2", "NUL"}
Names == {<<>>} \cup [1..1 -> NameChars] \cup [1..2 -> NameChars]

\* The id of the device at index i: "d0", "d1", ...
device_id(i) == <<"d", DigitChars[i + 1]>>

\* CString::new: refuses a text with a NUL in it.
CString_new(name) == \A i \in 1..Len(name) : name[i] # "NUL"

\* iio_context_find_device: the handle of the device of that id, or NULL.
iio_context_find_device(c, name) ==
    IF \E i \in 0..(ndev[c] - 1) : device_id(i) = name
    THEN (CHOOSE i \in 0..(ndev[c] - 1) : device_id(i) = name) + 1
    ELSE 0

\* Context::find_device: CString::new(name).unwrap() panics on a name that
\* CString::new refuses; else None for NULL and a Device for a handle.
find_device(t, c, name) ==
    /\ pc[t] = Idle
    /\ ctxVals[c] > 0
    /\ strong[c] < MaxRefs
    /\ IF ~CString_new(name)
       THEN /\ pc' = [pc EXCEPT ![t] = [op |-> "panic", obj |-> c, n |-> 0]]
            /\ UNCHANGED <<strong, devVals, last, misuse>>
       ELSE /\ misuse' = UseCtx(c)
            /\ LET dev == iio_context_find_device(c, name) IN
                IF is_null(dev)
                THEN /\ last' = Ret("find_device", c, FALSE, 0)
                     /\ UNCHANGED <<strong, devVals>>
                ELSE /\ strong' = context(c)
                     /\ devVals' = [devVals EXCEPT ![c] = @ + 1]
                     /\ last' = Ret("find_device", c, TRUE, dev - 1)
            /\ UNCHANGED pc
    /\ UNCHANGED <<ctxState, ctxDestroys, ctxVals, chanVals, enabled, needsTrig,
                   trig, buf, timeout, cancelReq, width, it, ext>>

\* A context with any number of devices has just been opened.
InitFind ==
    /\ ctxState = [c \in Ctxs |-> IF c = 1 THEN "live" ELSE "none"]
    /\ ctxDestroys = [c \in Ctxs |-> 0]
    /\ inners = [c \in Ctxs |-> 0]
    /\ strong = [c \in Ctxs |-> IF c = 1 THEN 1 ELSE 0]
    /\ ctxVals = [c \in Ctxs |-> IF c = 1 THEN 1 ELSE 0]
    /\ devVals = [c \in Ctxs |-> 0]
    /\ chanVals = [c \in Ctxs |-> {}]
    /\ enabled = [c \in Ctxs |-> {}]
    /\ needsTrig = [c \in Ctxs |-> FALSE]
    /\ trig = [c \in Ctxs |-> FALSE]
    /\ buf = [b \in Bufs |-> NoBuf]
    /\ pc = [t \in Threads |-> Idle]
    /\ timeout = [c \in Ctxs |-> 0]
    /\ cancelReq = [b \in Bufs |-> FALSE]
    /\ last = NoOp
    /\ misuse = FALSE
    /\ width = [ch \in Chans |-> 2]
    /\ it = NoIter
    /\ ndev \in {f \in [Ctxs -> 0..MaxCount] : \A c \in Ctxs : c # 1 => f[c] = 0}
    /\ nattrs = 0
    /\ iter = NoIndexIter
    /\ fmt = NoFmt
    /\ mem = <<>>
    /\ attr = <<>>
    /\ res = NoRes

NextFind ==
    \/ \E t \in Threads, c \in Ctxs, name \in Names : find_device(t, c, name)
    \/ \E t \in Threads, c \in Ctxs : drop_device(t, c)
    \/ \E t \in Threads, c \in Ctxs : clone(t, c)
    \/ \E t \in Threads, c \in Ctxs : drop_context(t, c)
    \/ \E t \in Threads : drop_inner(t)

SpecFind == InitFind /\ [][NextFind]_vars

\* C22: find_device returns a Device when the native lookup finds one and
\* None otherwise, for every name; it never aborts.
C22_FindDeviceNeverFails ==
    [][\A t \in Threads, c \in Ctxs, name \in Names :
          find_device(t, c, name) =>
              /\ pc'[t] = Idle
              /\ last'.op = "find_device"
              /\ last'.ok <=> (\E i \in 0..(ndev[c] - 1) : device_id(i) = name)]_vars

\* ------------------------------------------------------------------------
\* SpecCtx: the constructors of Context and InnerContext
\* ------------------------------------------------------------------------

\* What a native creation call can return: NULL (0), or the handle of a
\* context that did not exist before.
Pointers == {0} \cup Ctxs
Created(ctx) == IF is_null(ctx) THEN TRUE ELSE ctxState[ctx] = "none"

\* The native creation call that returns ctx has made the context of that
\* handle (none for NULL).
iio_create(ctx) ==
    IF is_null(ctx) THEN ctxState ELSE [ctxState EXCEPT ![ctx] = "live"]

\* (mutant) every pointer is wrapped.
InnerContext_new_always(ctx) == TRUE

\* InnerContext::new: Err(Errno::last()) for a null pointer, else
\* Ok(Self { ctx }).
InnerContext_new(ctx) == ~is_null(ctx)

\* Context::from_ptr: InnerContext::new(ctx)?, then Context::from_inner,
\* which puts the InnerContext in a new Arc.  The native call before it has
\* created the context of the handle (none for NULL).
from_ptr(t, op, ctx) ==
    /\ pc[t] = Idle
    /\ Created(ctx)
    /\ ctxState' = iio_create(ctx)
    /\ IF InnerContext_new(ctx)
       THEN /\ strong' = [strong EXCEPT ![ctx] = 1]
            /\ ctxVals' = [ctxVals EXCEPT ![ctx] = @ + 1]
            /\ last' = Ret(op, ctx, TRUE, 0)
       ELSE /\ last' = Ret(op, ctx, FALSE, 0)
            /\ UNCHANGED <<strong, ctxVals>>
    /\ UNCHANGED <<ctxDestroys, devVals, chanVals, enabled, needsTrig, trig, buf,
                   pc, timeout, cancelReq, misuse, width, it, ext>>

\* Context::new: iio_create_default_context.
new(t, ctx) == from_ptr(t, "new", ctx)

\* Context::with_backend, and from_uri and from_network which call it: a
\* name, host or URI with a NUL in it is an error of CString::new, before
\* any native call.
with_backend_as(t, op, nul, ctx) ==
    IF nul
    THEN /\ pc[t] = Idle
         /\ last' = Ret(op, 0, FALSE, 0)
         /\ UNCHANGED <<ctxState, ctxDestroys, strong, ctxVals, devVals, chanVals,
                        enabled, needsTrig, trig, buf, pc, timeout, cancelReq,
                        misuse, width, it, ext>>
    ELSE from_ptr(t, op, ctx)

with_backend(t, nul, ctx) == with_backend_as(t, "with_backend", nul, ctx)
from_uri(t, nul, ctx) == with_backend_as(t, "from_uri", nul, ctx)
from_network(t, nul, ctx) == with_backend_as(t, "from_network", nul, ctx)

\* (mutant) the clone is the handle that was given.
iio_context_clone_same(c, c2) == c

\* iio_context_clone: the handle c2 of a new context, or NULL.
iio_context_clone(c, c2) == c2

\* Context::try_clone_inner: InnerContext::try_clone, that is
\* InnerContext::new(iio_context_clone(self.ctx)).
try_clone_inner(t, c, c2) ==
    /\ pc[t] = Idle
    /\ ctxVals[c] > 0
    /\ Created(c2)
    /\ misuse' = UseCtx(c)
    /\ LET ctx == iio_context_clone(c, c2) IN
        /\ ctxState' = iio_create(ctx)
        /\ IF InnerContext_new(ctx)
           THEN /\ inners' = [inners EXCEPT ![ctx] = @ + 1]
                /\ last' = Ret("try_clone_inner", ctx, TRUE, 0)
           ELSE /\ last' = Ret("try_clone_inner", ctx, FALSE, 0)
                /\ UNCHANGED inners
    /\ UNCHANGED <<ctxDestroys, strong, ctxVals, devVals, chanVals, enabled,
                   needsTrig, trig, buf, pc, timeout, cancelReq, width, it,
                   ndev, nattrs, iter, fmt, mem, attr, res>>

\* Context::try_deep_clone: self.inner.try_clone()?, then Arc::new(inner).
try_deep_clone(t, c, c2) ==
    /\ pc[t] = Idle
    /\ ctxVals[c] > 0
    /\ Created(c2)
    /\ misuse' = UseCtx(c)
    /\ LET ctx == iio_context_clone(c, c2) IN
        /\ ctxState' = iio_create(ctx)
        /\ IF InnerContext_new(ctx)
           THEN /\ strong' = [strong EXCEPT ![ctx] = 1]
                /\ ctxVals' = [ctxVals EXCEPT ![ctx] = @ + 1]
                /\ last' = Ret("try_deep_clone", ctx, TRUE, 0)
           ELSE /\ last' = Ret("try_deep_clone", ctx, FALSE, 0)
                /\ UNCHANGED <<strong, ctxVals>>
    /\ UNCHANGED <<ctxDestroys, devVals, chanVals, enabled, needsTrig, trig, buf,
                   pc, timeout, cancelReq, width, it, ext>>

\* (mutant) the InnerContext is taken whatever the count.
Arc_try_unwrap_any(n) == TRUE

\* Arc::try_unwrap: succeeds when the strong count is exactly 1.
Arc_try_unwrap(n) == n = 1

\* Context::try_release_inner: Ok(inner) when Arc::try_unwrap succeeds, else
\* Err of the same Context.
try_release_inner(t, c) ==
    /\ pc[t] = Idle
    /\ ctxVals[c] > 0
    /\ IF Arc_try_unwrap(strong[c])
       THEN /\ strong' = [strong EXCEPT ![c] = 0]
            /\ ctxVals' = [ctxVals EXCEPT ![c] = @ - 1]
            /\ inners' = [inners EXCEPT ![c] = @ + 1]
            /\ last' = Ret("try_release_inner", c, TRUE, 0)
       ELSE /\ last' = Ret("try_release_inner", c, FALSE, 0)
            /\ UNCHANGED <<strong, ctxVals, inners>>
    /\ UNCHANGED <<ctxState, ctxDestroys, devVals, chanVals, enabled, needsTrig,
                   trig, buf, pc, timeout, cancelReq, misuse, width, it,
                   ndev, nattrs, iter, fmt, mem, attr, res>>

\* Context::from_inner (impl From<InnerContext> for Context): the
\* InnerContext is moved into a new Arc.
from_inner(t, c) ==
    /\ pc[t] = Idle
    /\ inners[c] > 0
    /\ inners' = [inners EXCEPT ![c] = @ - 1]
    /\ strong' = [strong EXCEPT ![c] = 1]
    /\ ctxVals' = [ctxVals EXCEPT ![c] = @ + 1]
    /\ UNCHANGED <<ctxState, ctxDestroys, devVals, chanVals, enabled, needsTrig,
                   trig, buf, pc, timeout, cancelReq, last, misuse, width, it,
                   ndev, nattrs, iter, fmt, mem, attr, res>>

\* An InnerContext that is in no Arc goes out of scope: its Drop runs.
drop_inner_value(t, c) ==
    /\ pc[t] = Idle
    /\ inners[c] > 0
    /\ inners' = [inners EXCEPT ![c] = @ - 1]
    /\ pc' = [pc EXCEPT ![t] = [op |-> "drop_inner", obj |-> c, n |-> 0]]
    /\ UNCHANGED <<ctxState, ctxDestroys, strong, ctxVals, devVals, chanVals,
                   enabled, needsTrig, trig, buf, timeout, cancelReq, last, misuse,
                   width, it, ndev, nattrs, iter, fmt, mem, attr, res>>

\* The program has not made a context yet; every context the library could
\* make has one device.
InitCtx ==
    /\ ctxState = [c \in Ctxs |-> "none"]
    /\ ctxDestroys = [c \in Ctxs |-> 0]
    /\ inners = [c \in Ctxs |-> 0]
    /\ strong = [c \in Ctxs |-> 0]
    /\ ctxVals = [c \in Ctxs |-> 0]
    /\ devVals = [c \in Ctxs |-> 0]
    /\ chanVals = [c \in Ctxs |-> {}]
    /\ enabled = [c \in Ctxs |-> {}]
    /\ needsTrig = [c \in Ctxs |-> FALSE]
    /\ trig = [c \in Ctxs |-> FALSE]
    /\ buf = [b \in Bufs |-> NoBuf]
    /\ pc = [t \in Threads |-> Idle]
    /\ timeout = [c \in Ctxs |-> 0]
    /\ cancelReq = [b \in Bufs |-> FALSE]
    /\ last = NoOp
    /\ misuse = FALSE
    /\ width = [ch \in Chans |-> 2]
    /\ it = NoIter
    /\ ndev = [c \in Ctxs |-> 1]
    /\ nattrs = 0
    /\ iter = NoIndexIter
    /\ fmt = NoFmt
    /\ mem = <<>>
    /\ attr = <<>>
    /\ res = NoRes

NextCtx ==
    \/ \E t \in Threads, ctx \in Pointers : new(t, ctx)
    \/ \E t \in Threads, nul \in BOOLEAN, ctx \in Pointers : with_backend(t, nul, ctx)
    \/ \E t \in Threads, nul \in BOOLEAN, ctx \in Pointers : from_uri(t, nul, ctx)
    \/ \E t \in Threads, nul \in BOOLEAN, ctx \in Pointers : from_network(t, nul, ctx)
    \/ \E t \in Threads, c \in Ctxs, c2 \in Pointers : try_clone_inner(t, c, c2)
    \/ \E t \in Threads, c \in Ctxs, c2 \in Pointers : try_deep_clone(t, c, c2)
    \/ \E t \in Threads, c \in Ctxs : try_release_inner(t, c)
    \/ \E t \in Threads, c \in Ctxs : from_inner(t, c)
    \/ \E t \in Threads, c \in Ctxs : drop_inner_value(t, c)
    \/ \E t \in Threads, c \in Ctxs : clone(t, c)
    \/ \E t \in Threads, c \in Ctxs : drop_context(t, c)
    \/ \E t \in Threads : drop_inner(t)
    \/ \E t \in Threads, c \in Ctxs : get_device(t, c, 0)
    \/ \E t \in Threads, c \in Ctxs : drop_device(t, c)
    \/ \E t \in Threads, c \in Ctxs : get_channel(t, c, 0)
    \/ \E t \in Threads, c \in Ctxs, ch \in Chans : drop_channel(t, c, ch)
    \/ \E t \in Threads, c \in Ctxs, ch \in Chans : enable(t, c, ch)
    \/ \E t \in Threads, c \in Ctxs : create_buffer(t, c, 1)
    \/ \E t \in Threads, b \in Bufs : drop_buffer(t, b)
    \/ \E t \in Threads : drop_fields(t)

SpecCtx == InitCtx /\ [][NextCtx]_vars

\* The constructors of Context and InnerContext.
Constructors ==
    {"new", "with_backend", "from_uri", "from_network", "try_deep_clone",
     "try_clone_inner"}

\* C23: no Context (and no InnerContext) holds a null handle or the handle
\* of a context that was never created: a constructor that got NULL from
\* the native call returned an error, and one that returned a value got a
\* handle that is not NULL.
C23_HandleNeverNull ==
    /\ \A c \in Ctxs :
          (ctxVals[c] > 0 \/ strong[c] > 0 \/ inners[c] > 0) => ctxState[c] # "none"
    /\ last.op \in Constructors => (last.ok => last.obj # 0)

\* C23 witness: the native creation call returned NULL and the constructor
\* returned an error: no Context exists.
C23_Witness ==
    /\ last.op \in Constructors
    /\ ~last.ok
    /\ last.obj = 0
    /\ \A c \in Ctxs : ctxVals[c] = 0 /\ strong[c] = 0 /\ inners[c] = 0

\* C24: try_release_inner returns the InnerContext if and only if the
\* Context is the only value that holds the native handle; otherwise the
\* Context comes back and nothing has changed; the native context is not
\* destroyed by the call in either case.
C24_ReleaseOnlyWhenSole ==
    [][\A t \in Threads, c \in Ctxs :
          try_release_inner(t, c) =>
              /\ last'.ok <=> Holders(c) = 1
              /\ last'.ok => /\ inners'[c] = inners[c] + 1
                             /\ ctxVals'[c] = ctxVals[c] - 1
              /\ ~last'.ok => UNCHANGED <<ctxVals, strong, inners>>
              /\ UNCHANGED <<ctxState, ctxDestroys>>
              /\ pc'[t] = Idle]_vars

\* C24 witness: the only Context of a live native context was released to
\* its InnerContext, and the native context is still there.
C24_Witness ==
    /\ last.op = "try_release_inner"
    /\ last.ok
    /\ last.obj \in Ctxs
    /\ inners[last.obj] = 1
    /\ Holders(last.obj) = 0
    /\ ctxState[last.obj] = "live"
    /\ ctxDestroys[last.obj] = 0

\* C25: a deep clone is a native context of its own: whatever the order and
\* the threads in which the values are dropped, every native context is
\* destroyed at most once, exactly once when its last value is gone, never
\* while a value still holds it, and no native call is made on a handle
\* that is not live.
C25_DeepCloneIndependent ==
    /\ ~misuse
    /\ \A c \in Ctxs :
        /\ ctxDestroys[c] <= 1
        /\ ctxState[c] = "destroyed" =>
              (Holders(c) = 0 /\ inners[c] = 0 /\ strong[c] = 0)
        /\ (ctxState[c] # "none" /\ Holders(c) = 0 /\ inners[c] = 0 /\ ~Dropping(c)) =>
              (ctxState[c] = "destroyed" /\ ctxDestroys[c] = 1)

\* C25 witness: after a deep clone, the two threads are each at the destroy
\* of one of the two native contexts.
C25_Witness ==
    /\ last.op \in {"try_deep_clone", "try_clone_inner"}
    /\ last.ok
    /\ pc[1].op = "drop_inner"
    /\ pc[2].op = "drop_inner"
    /\ pc[1].obj # pc[2].obj
    /\ \A c \in Ctxs : ctxState[c] = "live" /\ ctxDestroys[c] = 0

\* ------------------------------------------------------------------------
\* SpecGetAttr: the attribute at an index, of a context, device or channel
\* ------------------------------------------------------------------------

\* What a get_attr returned: the name of the attribute (the name of the
\* attribute at index i is taken to be i + 1), or the kind of the error.
AttrAt(op, idx, ok, err, val) ==
    [op |-> op, idx |-> idx, ok |-> ok, err |-> err, val |-> val]

\* iio_context_get_attr: 0 and the name and the value of the attribute at
\* the index, or, past the last one, a negative errno or no strings.
iio_context_get_attr(i) ==
    IF i < nattrs THEN {[ret |-> 0, pname |-> i + 1, pval |-> i + 1]}
    ELSE {[ret |-> -22, pname |-> 0, pval |-> 0],
          [ret |-> 0, pname |-> 0, pval |-> 0]}

\* The variables the get_attr functions leave alone.
getAttrFixed == <<ctxState, ctxDestroys, strong, ctxVals, devVals, chanVals, enabled,
                  needsTrig, trig, buf, pc, timeout, cancelReq, last, width, it,
                  ndev, nattrs, iter, fmt, mem, attr, inners>>

\* Context::get_attr: sys_result of the native return value, then
\* StringConversionError if a string is missing.
Context_get_attr(t, c, idx) ==
    /\ pc[t] = Idle
    /\ ctxVals[c] > 0
    /\ misuse' = UseCtx(c)
    /\ \E r \in iio_context_get_attr(as_c_uint(idx)) :
        res' = IF ~sys_result(r.ret)
               THEN AttrAt("Context::get_attr", idx, FALSE, "Errno", -r.ret)
               ELSE IF is_null(r.pname) \/ is_null(r.pval)
               THEN AttrAt("Context::get_attr", idx, FALSE, "StringConversionError", 0)
               ELSE AttrAt("Context::get_attr", idx, TRUE, "none", r.pname - 1)
    /\ UNCHANGED getAttrFixed

\* Device::get_attr, as the user calls it.
Device_get_attr_at(t, c, idx) ==
    /\ pc[t] = Idle
    /\ devVals[c] > 0
    /\ misuse' = UseCtx(c)
    /\ LET r == Device_get_attr(idx) IN
        res' = AttrAt("Device::get_attr", idx, r.ok,
                      IF r.ok THEN "none" ELSE "InvalidIndex", r.val)
    /\ UNCHANGED getAttrFixed

\* iio_channel_get_attr: the name of the attribute at the index, or NULL.
iio_channel_get_attr(i) == IF i < nattrs THEN i + 1 ELSE 0

\* Channel::get_attr: cstring_opt(pstr).ok_or(Error::InvalidIndex).
Channel_get_attr(t, c, ch, idx) ==
    /\ pc[t] = Idle
    /\ ch \in chanVals[c]
    /\ misuse' = UseCtx(c)
    /\ LET pstr == iio_channel_get_attr(as_c_uint(idx)) IN
        res' = IF is_null(pstr)
               THEN AttrAt("Channel::get_attr", idx, FALSE, "InvalidIndex", 0)
               ELSE AttrAt("Channel::get_attr", idx, TRUE, "none", pstr - 1)
    /\ UNCHANGED getAttrFixed

\* A Context, a Device and a Channel of it; the context, the device and the
\* channel have the same number of attributes, any number.
InitGetAttr ==
    /\ ctxState = [c \in Ctxs |-> IF c = 1 THEN "live" ELSE "none"]
    /\ ctxDestroys = [c \in Ctxs |-> 0]
    /\ inners = [c \in Ctxs |-> 0]
    /\ strong = [c \in Ctxs |-> IF c = 1 THEN 2 ELSE 0]
    /\ ctxVals = [c \in Ctxs |-> IF c = 1 THEN 1 ELSE 0]
    /\ devVals = [c \in Ctxs |-> IF c = 1 THEN 1 ELSE 0]
    /\ chanVals = [c \in Ctxs |-> {}]
    /\ enabled = [c \in Ctxs |-> {}]
    /\ needsTrig = [c \in Ctxs |-> FALSE]
    /\ trig = [c \in Ctxs |-> FALSE]
    /\ buf = [b \in Bufs |-> NoBuf]
    /\ pc = [t \in Threads |-> Idle]
    /\ timeout = [c \in Ctxs |-> 0]
    /\ cancelReq = [b \in Bufs |-> FALSE]
    /\ last = NoOp
    /\ misuse = FALSE
    /\ width = [ch \in Chans |-> 2]
    /\ it = NoIter
    /\ ndev = [c \in Ctxs |-> IF c = 1 THEN 1 ELSE 0]
    /\ nattrs \in 0..MaxCount
    /\ iter = NoIndexIter
    /\ fmt = NoFmt
    /\ mem = <<>>
    /\ attr = <<>>
    /\ res = NoRes

NextGetAttr ==
    \/ \E t \in Threads, c \in Ctxs, idx \in Usizes : Context_get_attr(t, c, idx)
    \/ \E t \in Threads, c \in Ctxs, idx \in Usizes : Device_get_attr_at(t, c, idx)
    \/ \E t \in Threads, c \in Ctxs, ch \in Chans, idx \in Usizes :
            Channel_get_attr(t, c, ch, idx)
    \/ \E t \in Threads, c \in Ctxs, idx \in Usizes : get_channel(t, c, idx)
    \/ \E t \in Threads, c \in Ctxs, ch \in Chans : drop_channel(t, c, ch)

SpecGetAttr == InitGetAttr /\ [][NextGetAttr]_vars

\* C27: an index that is not less than the count gets the InvalidIndex
\* error and no other, from Context::get_attr, Device::get_attr and
\* Channel::get_attr, and an error from Device::get_channel.
C27_OutOfRangeIsInvalidIndex ==
    [][/\ \A t \in Threads, c \in Ctxs, ch \in Chans, idx \in Usizes :
            ((\/ Context_get_attr(t, c, idx)
              \/ Device_get_attr_at(t, c, idx)
              \/ Channel_get_attr(t, c, ch, idx)) /\ idx >= nattrs) =>
                (~res'.ok /\ res'.err = "InvalidIndex")
       /\ \A t \in Threads, c \in Ctxs, idx \in Usizes :
            (get_channel(t, c, idx) /\ idx >= MaxChan) => ~last'.ok]_vars

\* ------------------------------------------------------------------------
\* SpecFmt: DataFormat::byte_length and DataFormat::type_of
\* ------------------------------------------------------------------------

\* The iio_data_format of the library: the length of a sample in bits, the
\* number of valid bits in it, the repeat count, the shift and the sign.
Lengths == {8, 12, 16, 24, 32, 64}
NativeFormats ==
    {f \in [is_signed : BOOLEAN, length : Lengths, bits : Lengths,
            repeat : {1, 2}, shift : {0, 1}] : f.bits <= f.length}

\* The variables the DataFormat functions leave alone.
fmtFixed == <<ctxState, ctxDestroys, strong, ctxVals, devVals, chanVals, enabled,
              needsTrig, trig, buf, pc, timeout, cancelReq, last, misuse,
              width, it, ndev, nattrs, iter, fmt, mem, attr, inners>>

\* DataFormat::byte_length.
byte_length_of ==
    /\ res' = [op |-> "byte_length", val |-> DataFormat_byte_length(fmt), T |-> NoType]
    /\ UNCHANGED fmtFixed

\* DataFormat::type_of.
type_of_fmt ==
    /\ res' = [op |-> "type_of", val |-> DataFormat_byte_length(fmt), T |-> type_of(fmt)]
    /\ UNCHANGED fmtFixed

\* A channel of any data format.
InitFmt ==
    /\ ctxState = [c \in Ctxs |-> IF c = 1 THEN "live" ELSE "none"]
    /\ ctxDestroys = [c \in Ctxs |-> 0]
    /\ inners = [c \in Ctxs |-> 0]
    /\ strong = [c \in Ctxs |-> IF c = 1 THEN 2 ELSE 0]
    /\ ctxVals = [c \in Ctxs |-> IF c = 1 THEN 1 ELSE 0]
    /\ devVals = [c \in Ctxs |-> 0]
    /\ chanVals = [c \in Ctxs |-> IF c = 1 THEN {1} ELSE {}]
    /\ enabled = [c \in Ctxs |-> {}]
    /\ needsTrig = [c \in Ctxs |-> FALSE]
    /\ trig = [c \in Ctxs |-> FALSE]
    /\ buf = [b \in Bufs |-> NoBuf]
    /\ pc = [t \in Threads |-> Idle]
    /\ timeout = [c \in Ctxs |-> 0]
    /\ cancelReq = [b \in Bufs |-> FALSE]
    /\ last = NoOp
    /\ misuse = FALSE
    /\ width = [ch \in Chans |-> 2]
    /\ it = NoIter
    /\ ndev = [c \in Ctxs |-> IF c = 1 THEN 1 ELSE 0]
    /\ nattrs = 0
    /\ iter = NoIndexIter
    /\ fmt \in NativeFormats
    /\ mem = <<>>
    /\ attr = <<>>
    /\ res = NoRes

NextFmt ==
    \/ byte_length_of
    \/ type_of_fmt

SpecFmt == InitFmt /\ [][NextFmt]_vars

\* n / 8 with integer division, said without the division.
Bytes(n) == CHOOSE q \in 0..n : q * 8 <= n /\ n < (q + 1) * 8

\* The integer type of a byte length and a sign, or no type.
IntegerOf(nbytes, is_signed) ==
    IF nbytes \in {1, 2, 4, 8}
    THEN [kind |-> "int", signed |-> is_signed, size |-> nbytes]
    ELSE NoType

\* C28 (as claimed): byte_length is (bits / 8) * repeat, bits being the
\* number of valid bits of the format, and type_of is the integer type of
\* that byte length and of the sign of the format, or no type.
C28_ByteLengthFromBits ==
    /\ res.op = "byte_length" => res.val = Bytes(fmt.bits) * fmt.repeat
    /\ res.op = "type_of" =>
            res.T = IntegerOf(Bytes(fmt.bits) * fmt.repeat, fmt.is_signed)

\* C28 (amended): byte_length is (length / 8) * repeat, length being the
\* total length of the sample in bits, and type_of is the integer type of
\* that byte length and of the sign of the format, or no type when the byte
\* length is not 1, 2, 4 or 8.
C28_ByteLengthFromLength ==
    /\ res.op = "byte_length" => res.val = Bytes(fmt.length) * fmt.repeat
    /\ res.op = "type_of" =>
            res.T = IntegerOf(Bytes(fmt.length) * fmt.repeat, fmt.is_signed)

\* C28 witness: a signed sample of 12 valid bits in 16 has the type i16.
C28_Witness ==
    /\ res.op = "type_of"
    /\ fmt.bits = 12
    /\ fmt.length = 16
    /\ fmt.repeat = 1
    /\ fmt.is_signed
    /\ res.T = [kind |-> "int", signed |-> TRUE, size |-> 2]

\* ------------------------------------------------------------------------
\* SpecTimeout: Context::set_timeout
\* ------------------------------------------------------------------------

\* The Durations of the model: whole seconds and the part of a second, in
\* steps of half a millisecond, given in microseconds.
MaxSecs == 1
Durations == [secs : 0..MaxSecs, micros : {500 * k : k \in 0..1999}]

\* Duration::subsec_millis: the whole milliseconds of the part of a second.
subsec_millis(d) == d.micros \div 1000

\* Context::set_timeout: ms = 1000 * as_secs + subsec_millis, then
\* set_timeout_ms(ms).
set_timeout(t, c, d) == set_timeout_ms(t, c, 1000 * d.secs + subsec_millis(d))

\* A context has just been opened; its timeout is any value.
InitTimeout ==
    /\ ctxState = [c \in Ctxs |-> IF c = 1 THEN "live" ELSE "none"]
    /\ ctxDestroys = [c \in Ctxs |-> 0]
    /\ inners = [c \in Ctxs |-> 0]
    /\ strong = [c \in Ctxs |-> IF c = 1 THEN 1 ELSE 0]
    /\ ctxVals = [c \in Ctxs |-> IF c = 1 THEN 1 ELSE 0]
    /\ devVals = [c \in Ctxs |-> 0]
    /\ chanVals = [c \in Ctxs |-> {}]
    /\ enabled = [c \in Ctxs |-> {}]
    /\ needsTrig = [c \in Ctxs |-> FALSE]
    /\ trig = [c \in Ctxs |-> FALSE]
    /\ buf = [b \in Bufs |-> NoBuf]
    /\ pc = [t \in Threads |-> Idle]
    /\ timeout \in {f \in [Ctxs -> TimeoutVals] : \A c \in Ctxs : c # 1 => f[c] = 0}
    /\ cancelReq = [b \in Bufs |-> FALSE]
    /\ last = NoOp
    /\ misuse = FALSE
    /\ width = [ch \in Chans |-> 2]
    /\ it = NoIter
    /\ ndev = [c \in Ctxs |-> IF c = 1 THEN 1 ELSE 0]
    /\ nattrs = 0
    /\ iter = NoIndexIter
    /\ fmt = NoFmt
    /\ mem = <<>>
    /\ attr = <<>>
    /\ res = NoRes

NextTimeout ==
    \/ \E t \in Threads, c \in Ctxs, d \in Durations : set_timeout(t, c, d)

SpecTimeout == InitTimeout /\ [][NextTimeout]_vars

\* C30: set_timeout(d) gives the library the timeout 0, which is no
\* timeout, only for the zero duration; every other duration gives a
\* timeout that is not 0, and a duration of whole milliseconds gives their
\* number.
C30_ZeroTimeoutOnlyForZero ==
    [][\A t \in Threads, c \in Ctxs, d \in Durations :
          set_timeout(t, c, d) =>
              /\ timeout'[c] = 0 <=> (d.secs = 0 /\ d.micros = 0)
              /\ d.micros % 1000 = 0 =>
                    timeout'[c] = 1000 * d.secs + d.micros \div 1000]_vars

\* ------------------------------------------------------------------------
\* SpecIter: the iterator over a buffer that was just refilled completely
\* ------------------------------------------------------------------------

\* The byte lengths of the channels of a device.
Widths == {1, 2, 4, 8}

\* Thread 1 holds the Context, the Device, its Channels and a Buffer of any
\* capacity over any non-empty set of enabled channels of any byte length,
\* and refill has returned the whole buffer.
InitIter ==
    /\ ctxState = [c \in Ctxs |-> IF c = 1 THEN "live" ELSE "none"]
    /\ ctxDestroys = [c \in Ctxs |-> 0]
    /\ inners = [c \in Ctxs |-> 0]
    /\ strong = [c \in Ctxs |-> IF c = 1 THEN 3 + MaxChan ELSE 0]
    /\ ctxVals = [c \in Ctxs |-> IF c = 1 THEN 1 ELSE 0]
    /\ devVals = [c \in Ctxs |-> IF c = 1 THEN 1 ELSE 0]
    /\ chanVals = [c \in Ctxs |-> IF c = 1 THEN Chans ELSE {}]
    /\ width \in [Chans -> Widths]
    /\ \E m \in SUBSET Chans \ {{}}, n \in 1..MaxSamples :
        /\ enabled = [c \in Ctxs |-> IF c = 1 THEN m ELSE {}]
        /\ buf = [b \in Bufs |-> IF b = 1
                    THEN [st |-> "live", owner |-> 1, ctx |-> 1, cap |-> n,
                          mask |-> m, cancelled |-> FALSE, native |-> "live",
                          destroys |-> 0]
                    ELSE NoBuf]
        /\ last = Ret("refill", 1, TRUE, n * iio_buffer_step(m))
    /\ needsTrig = [c \in Ctxs |-> FALSE]
    /\ trig = [c \in Ctxs |-> FALSE]
    /\ pc = [t \in Threads |-> Idle]
    /\ timeout = [c \in Ctxs |-> 0]
    /\ cancelReq = [b \in Bufs |-> FALSE]
    /\ misuse = FALSE
    /\ it = NoIter
    /\ ndev = [c \in Ctxs |-> IF c = 1 THEN 1 ELSE 0]
    /\ nattrs = 0
    /\ iter = NoIndexIter
    /\ fmt = NoFmt
    /\ mem = <<>>
    /\ attr = <<>>
    /\ res = NoRes

NextIter ==
    \/ \E t \in Threads, b \in Bufs, ch \in Chans, sz \in Sizes : channel_iter(t, b, ch, sz)
    \/ \E t \in Threads : next(t)
    \/ \E t \in Threads, b \in Bufs : drop_buffer(t, b)
    \/ \E t \in Threads : drop_fields(t)

SpecIter == InitIter /\ [][NextIter]_vars

\* The iterator runs over a channel of the buffer with T of the byte length
\* of the channel, and the buffer is there.
Matching ==
    /\ it.st = "live"
    /\ buf[it.b].st = "live"
    /\ it.chan \in buf[it.b].mask
    /\ it.sz = byte_length(it.chan)

\* C8: over a completely refilled buffer, channel_iter::<T> yields exactly
\* sample_count items for an enabled channel whose byte width is the size
\* of T, whatever the other enabled channels are.
C8_YieldsSampleCount ==
    (Matching /\ it.done) => it.n = buf[it.b].cap

\* C9: every next() that yields a value moves the read position towards the
\* end of the buffer, so the sequence is finite.
C9_NextAdvances ==
    [][(it.st = "live" /\ it'.st = "live" /\ it'.n = it.n + 1) => it'.ptr > it.ptr]_vars

\* C10: every value channel_iter::<T> yields is read from bytes that lie
\* between the start and the end of the native buffer, also when T is not
\* of the width of the channel.
C10_ReadsInsideBuffer ==
    ~it.outside

\* C29: every next() that yields a value moves the read position on by the
\* byte step of the buffer, for every T, so the k-th item is read at the
\* first sample of the channel plus k steps.
C29_NextAdvancesByRowStep ==
    [][(it.st = "live" /\ it'.st = "live" /\ buf[it.b].st = "live"
            /\ it'.n = it.n + 1) =>
          /\ it'.ptr = it.ptr + iio_buffer_step(buf[it.b].mask)
          /\ it.ptr = iio_buffer_first(it.b, it.chan)
                        + it.n * iio_buffer_step(buf[it.b].mask)]_vars

====
